---- MODULE Spec2Model ----
(***************************************************************************)
(* pam_session_timelimit: the per-user daily session-time ledger, its      *)
(* flock discipline and the three PAM entry points (pam_sm_acct_mgmt,      *)
(* pam_sm_open_session, pam_sm_close_session).                             *)
(*                                                                         *)
(* Files are sequences of cells.  A cell of the state file is a byte of    *)
(* the username field, the whole time_t day marker or the whole usec_t     *)
(* counter; a cell of the config file is a character (its ASCII code).     *)
(***************************************************************************)
EXTENDS Integers, Sequences, FiniteSets, TLC

\* ------------------------------------------------------------------ bounds
\* NAME_MAX of <limits.h>, scaled: the username field is NAME_MAX+1 cells.
NAME_MAX == 1
\* width of usec_t in bits, scaled
UsecBits == 4
\* microseconds in a second, scaled
USEC_PER_SEC == 2
\* seconds in a day, scaled
SecsPerDay == 3
\* the last instant of the wall clock the model runs to
MaxClock == 5
\* number of login processes
NProcs == 2
\* entry-point invocations per process
MaxCalls == 3
\* entry-point invocations of a process whose logins follow one another
MaxCallsSeq == 7

\* ------------------------------------------------------- program constants
NUL == 0
TAB == 9
NL == 10
SPACE == 32
HASH == 35
\* "Format: " (the 8-byte tag, one cell) and the uint32_t version (one cell)
FormatTag == 70
FormatVersion == 1

USEC_INFINITY == 2 ^ UsecBits - 1

Min(a, b) == IF a < b THEN a ELSE b
Max(a, b) == IF a < b THEN b ELSE a

Header == << FormatTag, FormatVersion >>
HeaderLen == Len(Header)
NameLen == NAME_MAX + 1
\* sizeof(buf) in get_/set_used_time_for_user
RecLen == NameLen + 1 + 1

\* s[i] of a C string: the terminating NUL after its last character
CharAt(s, i) == IF i <= Len(s) THEN s[i] ELSE NUL

\* !strcmp(s, buf): compares until s ends, its terminating NUL included,
\* whatever the width of the name field is
strcmp_eq(s, buf, n) ==
    \A i \in 1..(Len(s) + 1) :
        CharAt(s, i) = (IF i <= Len(buf) THEN buf[i] ELSE NUL)

\* !strncmp(s, buf, n): compares until n cells are done or s ends
strncmp_eq(s, buf, n) ==
    \A i \in 1..n :
        (\A j \in 1..(i - 1) : CharAt(s, j) # NUL) => CharAt(s, i) = buf[i]

\* strncpy(buf, s, n) into a zeroed buffer: truncated or NUL-padded
strncpy(s, n) == [i \in 1..n |-> CharAt(s, i)]

\* the record set_used_time_for_user builds in buf
MakeRecord(username, today, used_time) ==
    strncpy(username, NameLen) \o << today, used_time >>

last_seen_of(buf) == buf[NameLen + 1]
used_time_of(buf) == buf[NameLen + 2]

\* time_today(): local midnight's broken-down time handed to timegm()
time_today(now, zone) == ((now + zone) \div SecsPerDay) * SecsPerDay

\* read(fd, buf, want) at offset pos of a regular file: the cells it returns
ReadCells(file, pos, want) ==
    SubSeq(file, pos + 1, pos + Min(want, Len(file) - pos))

\* buf after read() stored k cells at its start
StoreCells(buf, cells) ==
    [i \in 1..RecLen |-> IF i <= Len(cells) THEN cells[i] ELSE buf[i]]

ZeroBuf == [i \in 1..RecLen |-> NUL]

\* The do/while of get_used_time_for_user from file offset pos.
RECURSIVE get_scan(_, _, _, _, _, _)
get_scan(file, username, today, pos, buf, buf_bytes) ==
    IF buf_bytes = RecLen /\ strncmp_eq(username, buf, NameLen)
    THEN [found |-> TRUE, pos |-> pos,
          used_time |-> IF last_seen_of(buf) < today THEN 0
                        ELSE used_time_of(buf)]
    ELSE LET bb == IF buf_bytes = RecLen THEN 0 ELSE buf_bytes
             cells == ReadCells(file, pos, RecLen - bb)
         IN  IF Len(cells) = 0
             THEN [found |-> FALSE, pos |-> pos, used_time |-> 0]
             ELSE get_scan(file, username, today, pos + Len(cells),
                           StoreCells(buf, cells), bb + Len(cells))

\* the first slot of the file is taken for the user's, whatever its name
set_scan_first(file, username, pos, buf, buf_bytes) ==
    IF Len(file) >= pos + RecLen THEN pos ELSE Len(file)

\* The do/while of set_used_time_for_user: the offset the record is written at.
RECURSIVE set_scan(_, _, _, _, _)
set_scan(file, username, pos, buf, buf_bytes) ==
    IF buf_bytes = RecLen /\ strncmp_eq(username, buf, NameLen)
    THEN pos - RecLen
    ELSE LET bb == IF buf_bytes = RecLen THEN 0 ELSE buf_bytes
             cells == ReadCells(file, pos, RecLen - bb)
         IN  IF Len(cells) = 0
             THEN pos
             ELSE set_scan(file, username, pos + Len(cells),
                           StoreCells(buf, cells), bb + Len(cells))

\* write(fd, buf, n) at offset pos: overwrites, extends at the end
WriteCells(file, pos, cells) ==
    SubSeq(file, 1, pos) \o cells
      \o SubSeq(file, pos + Len(cells) + 1, Len(file))

\* ------------------------------------------------------------ config file
\* size of the line buffer of parse_config_file, scaled
LineSize == 12
\* entries of a generated limits file
MaxEntries == 5
\* entry point calls of a host that keeps no order
MaxCallsHost == 3

isspace(c) == c \in {TAB, NL, 11, 12, 13, SPACE}

\* the smallest index of S, or dflt when S is empty
FirstOf(S, dflt) == IF S = {} THEN dflt ELSE CHOOSE i \in S : \A j \in S : i <= j

\* the text at cell p of buf up to the first white space or NUL
WordAt(buf, p) ==
    LET q == FirstOf({i \in p..Len(buf) : buf[i] = NUL \/ isspace(buf[i])},
                     Len(buf) + 1)
    IN  SubSeq(buf, p, q - 1)

\* the C string that starts at cell p of buf (buf ends in a NUL cell)
CStringAt(buf, p) ==
    LET q == FirstOf({i \in p..Len(buf) : buf[i] = NUL}, Len(buf) + 1)
    IN  SubSeq(buf, p, q - 1)

\* buf with the cells of Z set to NUL
Zeroed(buf, Z) == [i \in 1..Len(buf) |-> IF i \in Z THEN NUL ELSE buf[i]]

\* parse_config_line on the string fgets returned.  Cells are numbered from
\* 1, so C's line[k] is buf[k+1]; buf ends with the string's NUL.  stray is
\* the byte in front of the buffer, line[-1], which the whitespace loop
\* reads when nothing is left of the line.
parse_config_line(line, stray) ==
    LET n0   == Len(line)
        buf0 == line \o << NUL >>
    IN
    IF line[n0] # NL
    THEN [ret |-> "PAM_BUF_ERR", user |-> << >>, limit |-> << >>,
          oob |-> FALSE]
    ELSE
    LET buf1 == Zeroed(buf0, {n0})
        len1 == n0 - 1
        hash == FirstOf({i \in 1..len1 : buf1[i] = HASH}, 0)
        buf2 == IF hash # 0 THEN Zeroed(buf1, {hash}) ELSE buf1
        len2 == IF hash # 0 THEN hash - 1 ELSE len1
        \* eat trailing whitespace: the last cell that is kept
        len3 == FirstOf({k \in 0..len2 :
                           /\ \A i \in (k + 1)..len2 : isspace(buf2[i])
                           /\ (k > 0 => ~isspace(buf2[k]))}, 0)
        buf3 == Zeroed(buf2, (len3 + 1)..len2)
        \* the loop ran down to length 0 and read line[-1]
        oob  == len3 = 0
    IN
    IF oob /\ isspace(stray)
    THEN [ret |-> "UNDEFINED", user |-> << >>, limit |-> << >>,
          oob |-> TRUE]
    ELSE IF len3 = 0
    THEN [ret |-> "PAM_SUCCESS", user |-> << >>, limit |-> << >>,
          oob |-> TRUE]
    ELSE
    LET \* for (i = 0; i <= length; i++) if (isspace(line[i])) break;
        i    == FirstOf({k \in 0..len3 : isspace(buf3[k + 1])}, len3 + 1)
        \* strncpy(*user, line, i); (*user)[i] = '\0';
        user == CStringAt(Zeroed(buf3, (i + 1)..(n0 + 1)), 1)
        \* line += i; while (isspace(*line)) line++;
        p    == FirstOf({k \in (i + 1)..(n0 + 1) : ~isspace(buf3[k])}, n0 + 1)
    IN
    IF i = 0
    THEN [ret |-> "PAM_SYSTEM_ERR", user |-> << >>, limit |-> << >>,
          oob |-> FALSE]
    ELSE IF buf3[p] = NUL
    THEN [ret |-> "PAM_SYSTEM_ERR", user |-> << >>, limit |-> << >>,
          oob |-> FALSE]
    ELSE [ret |-> "PAM_SUCCESS",
          user |-> user,
          limit |-> CStringAt(buf3, p),
          oob |-> FALSE]

\* fgets(line, sizeof(line), config_file): the strings it returns in turn
RECURSIVE fgets_lines(_)
fgets_lines(text) ==
    IF Len(text) = 0 THEN << >>
    ELSE LET nl  == FirstOf({i \in 1..Len(text) : text[i] = NL}, Len(text))
             end == Min(nl, LineSize - 1)
         IN  << SubSeq(text, 1, end) >>
               \o fgets_lines(SubSeq(text, end + 1, Len(text)))

\* the while loop of parse_config_file over the remaining lines
RECURSIVE parse_lines(_, _, _)
parse_lines(lines, stray, table) ==
    IF Len(lines) = 0
    THEN [ret |-> IF Len(table) = 0 THEN "PAM_IGNORE" ELSE "PAM_SUCCESS",
          table |-> table, logs |-> 0]
    ELSE LET r == parse_config_line(Head(lines), stray)
         IN  IF r.ret = "UNDEFINED"
             THEN [ret |-> "UNDEFINED", table |-> << >>, logs |-> 0]
             ELSE IF r.ret # "PAM_SUCCESS"
             THEN [ret |-> "PAM_PERM_DENIED", table |-> << >>, logs |-> 1]
             ELSE IF Len(r.user) = 0 \/ Len(r.limit) = 0
             THEN parse_lines(Tail(lines), stray, table)
             ELSE parse_lines(Tail(lines), stray,
                              Append(table, << r.user, r.limit >>))

\* lines that do not parse are passed over, the others are applied
RECURSIVE parse_lines_lenient(_, _, _)
parse_lines_lenient(lines, stray, table) ==
    IF Len(lines) = 0
    THEN [ret |-> IF Len(table) = 0 THEN "PAM_IGNORE" ELSE "PAM_SUCCESS",
          table |-> table, logs |-> 0]
    ELSE LET r == parse_config_line(Head(lines), stray)
         IN  IF r.ret # "PAM_SUCCESS" \/ Len(r.user) = 0 \/ Len(r.limit) = 0
             THEN parse_lines_lenient(Tail(lines), stray, table)
             ELSE parse_lines_lenient(Tail(lines), stray,
                                      Append(table, << r.user, r.limit >>))

parse_config_file_lenient(cfg, stray) ==
    IF ~cfg.exists
    THEN [ret |-> "PAM_IGNORE", table |-> << >>, logs |-> 1]
    ELSE IF ~cfg.readable
    THEN [ret |-> "PAM_PERM_DENIED", table |-> << >>, logs |-> 1]
    ELSE parse_lines_lenient(fgets_lines(cfg.text), stray, << >>)

\* parse_config_file: cfg is [exists, readable, text]
parse_config_file(cfg, stray) ==
    IF ~cfg.exists
    THEN [ret |-> "PAM_IGNORE", table |-> << >>, logs |-> 1]
    ELSE IF ~cfg.readable
    THEN [ret |-> "PAM_PERM_DENIED", table |-> << >>, logs |-> 1]
    ELSE parse_lines(fgets_lines(cfg.text), stray, << >>)

\* the first matching entry wins
match_first(table, username, runtime_max_sec) ==
    LET hits == {i \in 1..Len(table) : table[i][1] = username}
    IN  IF hits = {} THEN runtime_max_sec
        ELSE table[CHOOSE i \in hits : \A j \in hits : i <= j][2]

\* the for loop of pam_sm_acct_mgmt over user_table: runtime_max_sec, or
\* the empty string for NULL; and the entries it logged
RECURSIVE match_user(_, _, _)
match_user(table, username, runtime_max_sec) ==
    IF Len(table) = 0 THEN runtime_max_sec
    ELSE match_user(Tail(table), username,
                    IF Head(table)[1] = username THEN Head(table)[2]
                    ELSE runtime_max_sec)

match_count(table, username) ==
    Cardinality({i \in 1..Len(table) : table[i][1] = username})

\* ------------------------------------------------------ time-span codec
Digit(c) == c \in 48..57

RECURSIVE DecValue(_)
DecValue(digits) ==
    IF Len(digits) = 0 THEN 0
    ELSE 10 * DecValue(SubSeq(digits, 1, Len(digits) - 1))
           + (digits[Len(digits)] - 48)

RECURSIVE ToDigits(_)
ToDigits(n) ==
    IF n < 10 THEN << 48 + n >> ELSE ToDigits(n \div 10) \o << 48 + (n % 10) >>

InfinityText == << 105, 110, 102, 105, 110, 105, 116, 121 >>
UnitSec == << 115 >>
UnitUsec == << 117, 115 >>

\* one "<digits><unit>" word: its microseconds, or -1
WordValue(word, default_unit) ==
    LET nd   == FirstOf({k \in 0..Len(word) :
                           k = Len(word) \/ ~Digit(word[k + 1])}, 0)
        unit == SubSeq(word, nd + 1, Len(word))
        mult == IF unit = << >> THEN default_unit
                ELSE IF unit = UnitSec THEN USEC_PER_SEC
                ELSE IF unit = UnitUsec THEN 1
                ELSE 0
    IN  IF nd = 0 \/ nd > 3 \/ mult = 0 THEN 0 - 1
        ELSE DecValue(SubSeq(word, 1, nd)) * mult

\* the words of a text, separated by blanks
RECURSIVE Words(_)
Words(text) ==
    IF Len(text) = 0 THEN << >>
    ELSE IF isspace(text[1]) THEN Words(Tail(text))
    ELSE LET e == FirstOf({k \in 1..Len(text) : isspace(text[k])},
                          Len(text) + 1)
         IN  << SubSeq(text, 1, e - 1) >>
               \o Words(SubSeq(text, e, Len(text)))

RECURSIVE SumWords(_, _)
SumWords(words, default_unit) ==
    IF Len(words) = 0 THEN 0
    ELSE LET v    == WordValue(Head(words), default_unit)
             rest == SumWords(Tail(words), default_unit)
         IN  IF v < 0 \/ rest < 0 THEN 0 - 1 ELSE v + rest

\* parse_time(text, &usec, default_unit): [err, usec]
parse_time(text, default_unit) ==
    LET words == Words(text)
        sum   == SumWords(words, default_unit)
    IN  IF text = InfinityText THEN [err |-> FALSE, usec |-> USEC_INFINITY]
        ELSE IF Len(words) = 0 \/ sum < 0 \/ sum > USEC_INFINITY
        THEN [err |-> TRUE, usec |-> 0]
        ELSE [err |-> FALSE, usec |-> sum]

\* format_timespan(buf, FORMAT_TIMESPAN_MAX, t, accuracy)
format_timespan(t) ==
    LET secs == t \div USEC_PER_SEC
        rest == t % USEC_PER_SEC
    IN  IF t = USEC_INFINITY THEN InfinityText
        ELSE IF t = 0 THEN << 48 >>
        ELSE (IF secs > 0 THEN ToDigits(secs) \o UnitSec ELSE << >>)
          \o (IF secs > 0 /\ rest > 0 THEN << SPACE >> ELSE << >>)
          \o (IF rest > 0 THEN ToDigits(rest) \o UnitUsec ELSE << >>)

\* ---------------------------------------------------------------- state
VARIABLES
    clock,          \* time(NULL), in seconds
    zone,           \* the system timezone: local time is clock + zone
    state_exists,   \* the state file exists at statepath
    state_file,     \* its cells
    lock,           \* the process holding flock(LOCK_EX) on it, or 0
    config,         \* the limits file: [exists, readable, text]
    pam,            \* per login process: its PAM handle and the locals of
                    \* the entry point it is running
    order,          \* how the application drives the entry points:
                    \* "login" (acct_mgmt, open_session, close_session,
                    \* pam_end) or "any"
    spent,          \* history: per user, the usage recorded for the first
                    \* day plus the elapsed time of every finished close
    probe,          \* the argument and result of a function applied alone
    io_faults       \* calls into the system may fail: the system calls on
                    \* the state file, malloc, pam_set_data

vars == << clock, zone, state_exists, state_file, lock, config, pam, order,
           spent, probe, io_faults >>

Procs == 1..NProcs

ted == << 116 >>
bob == << 98 >>
Users == {ted, bob}

\* the instant the model starts at: the first second of the second day
Clock0 == SecsPerDay
Yesterday == 0
Today0 == time_today(Clock0, 0)

\* the sum without the saturation test: it wraps
accumulate_wraps(used_time, elapsed_time) ==
    (elapsed_time + used_time) % (2 ^ UsecBits)

\* the usage read by get is dropped
accumulate_forgets(used_time, elapsed_time) == elapsed_time

\* accumulated = used + elapsed of pam_sm_close_session
accumulate(used_time, elapsed_time) ==
    IF USEC_INFINITY - used_time < elapsed_time THEN USEC_INFINITY
    ELSE (elapsed_time + used_time) % (2 ^ UsecBits)

\* (end_time - *start_time) * USEC_PER_SEC in usec_t
elapsed_usec(end_time, start_time) ==
    ((end_time - start_time) * USEC_PER_SEC) % (2 ^ UsecBits)

\* the module arguments an entry point is called with
ArgvSet == { << >>, << "path=", "statepath=" >>, << "statepath=" >>,
             << "other" >>, << "statepath=", "other" >> }

acct_args_ok(argv) ==
    \A i \in 1..Len(argv) : argv[i] \in {"path=", "statepath="}

close_args_ok(argv) ==
    \A i \in 1..Len(argv) : argv[i] = "statepath="

\* the byte in front of the line buffer of parse_config_file, which the
\* loop over trailing whitespace reads for a line it has emptied: whatever
\* the stack holds there, whitespace or not
StrayBytes == {NUL, SPACE}

\* what the build can make of the loop running below the line buffer: the
\* scan for the end of the username runs on through the stack to a byte
\* that ends the line as an invalid one, or to an address it may not read
UndefinedOutcomes == {"PAM_PERM_DENIED", "SIGSEGV"}

\* a PAM handle after pam_start, before any entry point has run
FreshHandle(user, item, calls) ==
    [pc |-> "idle", entry |-> "none", fn |-> "none", stage |-> "start",
     user |-> user, item |-> item,
     limit |-> << >>, start_time |-> 0 - 1,
     timeval |-> 0, used_time |-> 0, elapsed_time |-> 0, charge |-> 0,
     ret |-> "none", logs |-> 0, calls |-> calls,
     \* buf_bytes of get_used_time_for_user while its reads fail
     buf_bytes |-> 0,
     \* history of the last call: its options were all recognized ones, and
     \* how often it called pam_get_item
     args_ok |-> TRUE, get_item_calls |-> 0,
     \* history: the usage the handle's Admission Check read
     seen |-> 0 - 1]

\* an entry point returns: its locals are gone
Return(h, ret, logs) ==
    [h EXCEPT !.pc = "idle", !.entry = "none", !.fn = "none",
              !.stage = IF h.entry = "open"
                        THEN (IF ret = "PAM_SUCCESS" THEN "opened"
                              ELSE "unopened")
                        ELSE IF h.entry = "close" THEN "closed"
                        ELSE IF ret \in {"PAM_SUCCESS", "PAM_IGNORE"}
                        THEN "checked" ELSE "refused",
              !.timeval = 0, !.used_time = 0, !.elapsed_time = 0,
              !.charge = 0, !.ret = ret, !.logs = logs, !.buf_bytes = 0]

\* get_/set_used_time_for_user is entered: open_state_path comes first
Enter(h, entry, fn) ==
    [h EXCEPT !.pc = "open", !.entry = entry, !.fn = fn]

\* the application may call an entry point of the stage it is at
Idle(p, stages) ==
    /\ pam[p].pc = "idle"
    /\ pam[p].calls > 0
    /\ order = "login" => pam[p].stage \in stages

\* the entry point is entered
Called(h, entry) ==
    [h EXCEPT !.calls = @ - 1, !.entry = entry, !.args_ok = TRUE,
              !.get_item_calls = 0, !.logs = 0]

\* -------------------------------------------------------------- actions
\* the user name is asked for before the options are looked at
acct_mgmt_identity_first(p) ==
    /\ Idle(p, {"start"})
    /\ \E args_ok \in {acct_args_ok(argv) : argv \in ArgvSet},
          stray \in StrayBytes, ub \in UndefinedOutcomes :
         LET h    == [Called(pam[p], "acct") EXCEPT
                        !.args_ok = args_ok, !.get_item_calls = 1]
             cf   == parse_config_file(config, stray)
             rms  == match_user(cf.table, h.user, << >>)
             nlog == cf.logs + match_count(cf.table, h.user)
             pt   == parse_time(rms, USEC_PER_SEC)
         IN  pam' = [pam EXCEPT ![p] =
                 IF h.item = "err" THEN Return(h, "PAM_BAD_ITEM", 0)
                 ELSE IF h.item = "null" THEN Return(h, "PAM_PERM_DENIED", 0)
                 ELSE IF ~args_ok THEN Return(h, "PAM_PERM_DENIED", 1)
                 ELSE IF cf.ret = "UNDEFINED" THEN Return(h, ub, cf.logs)
                 ELSE IF cf.ret # "PAM_SUCCESS" THEN Return(h, cf.ret, cf.logs)
                 ELSE IF rms = << >> THEN Return(h, "PAM_IGNORE", nlog)
                 ELSE IF pt.err THEN Return(h, "PAM_PERM_DENIED", nlog + 1)
                 ELSE Enter([h EXCEPT !.timeval = pt.usec, !.logs = nlog],
                            "acct", "get")]
    /\ UNCHANGED << clock, zone, state_exists, state_file, lock, config,
                    order, spent, probe, io_faults >>

\* pam_sm_acct_mgmt up to its call of get_used_time_for_user
pam_sm_acct_mgmt(p) ==
    /\ Idle(p, {"start"})
    /\ \E args_ok \in {acct_args_ok(argv) : argv \in ArgvSet},
          stray \in StrayBytes, ub \in UndefinedOutcomes :
         LET h    == [Called(pam[p], "acct") EXCEPT
                        !.args_ok = args_ok,
                        !.get_item_calls = IF args_ok THEN 1 ELSE 0]
             cf   == parse_config_file(config, stray)
             rms  == match_user(cf.table, h.user, << >>)
             nlog == cf.logs + match_count(cf.table, h.user)
             pt   == parse_time(rms, USEC_PER_SEC)
         IN  pam' = [pam EXCEPT ![p] =
                 IF ~args_ok THEN Return(h, "PAM_PERM_DENIED", 1)
                 ELSE IF h.item = "err" THEN Return(h, "PAM_BAD_ITEM", 0)
                 ELSE IF h.item = "null" THEN Return(h, "PAM_PERM_DENIED", 0)
                 ELSE IF cf.ret = "UNDEFINED" THEN Return(h, ub, cf.logs)
                 ELSE IF cf.ret # "PAM_SUCCESS" THEN Return(h, cf.ret, cf.logs)
                 ELSE IF rms = << >> THEN Return(h, "PAM_IGNORE", nlog)
                 ELSE IF pt.err THEN Return(h, "PAM_PERM_DENIED", nlog + 1)
                 ELSE Enter([h EXCEPT !.timeval = pt.usec, !.logs = nlog],
                            "acct", "get")]
    /\ UNCHANGED << clock, zone, state_exists, state_file, lock, config,
                    order, spent, probe, io_faults >>

\* a call into the system goes through, or fails where the run has failing
\* calls
SysOutcomes == IF io_faults THEN {"ok", "fail"} ELSE {"ok"}

\* a start time already stored for the handle is kept
open_session_keeps_first(p) ==
    /\ Idle(p, {"checked"})
    /\ \E mem \in SysOutcomes, store \in SysOutcomes :
         LET h == Called(pam[p], "open")
         IN  pam' = [pam EXCEPT ![p] =
                 IF mem = "fail" THEN Return(h, "PAM_BUF_ERR", 0)
                 ELSE IF store = "fail" THEN Return(h, "PAM_SYSTEM_ERR", 0)
                 ELSE Return([h EXCEPT !.start_time =
                                 IF @ >= 0 THEN @ ELSE clock],
                             "PAM_SUCCESS", 0)]
    /\ UNCHANGED << clock, zone, state_exists, state_file, lock, config,
                    order, spent, probe, io_faults >>

\* opening a session books the whole day for the user in the state file
open_session_reserves(p) ==
    /\ Idle(p, {"checked"})
    /\ pam' = [pam EXCEPT ![p] =
                 Return([Called(pam[p], "open") EXCEPT !.start_time = clock],
                        "PAM_SUCCESS", 0)]
    /\ state_file' =
          IF pam[p].limit = << >> \/ ~state_exists THEN state_file
          ELSE WriteCells(state_file,
                          set_scan(state_file, pam[p].user, HeaderLen,
                                   ZeroBuf, 0),
                          MakeRecord(pam[p].user, time_today(clock, zone),
                                     USEC_INFINITY))
    /\ UNCHANGED << clock, zone, state_exists, lock, config, order, spent,
                    probe, io_faults >>

\* pam_sm_open_session: malloc, time(NULL), pam_set_data
pam_sm_open_session(p) ==
    /\ Idle(p, {"checked"})
    /\ \E mem \in SysOutcomes, store \in SysOutcomes :
         LET h == Called(pam[p], "open")
         IN  pam' = [pam EXCEPT ![p] =
                 IF mem = "fail" THEN Return(h, "PAM_BUF_ERR", 0)
                 ELSE IF store = "fail" THEN Return(h, "PAM_SYSTEM_ERR", 0)
                 ELSE Return([h EXCEPT !.start_time = clock],
                             "PAM_SUCCESS", 0)]
    /\ UNCHANGED << clock, zone, state_exists, state_file, lock, config,
                    order, spent, probe, io_faults >>

\* pam_sm_close_session with its tests in another order or left out:
\* short_circuit: a session without a published limit returns at once;
\* options_first: the options are looked at before that;
\* check_options: the options are looked at;
\* check_start: the start time is tested for being there and in the past
close_session_as(p, short_circuit, options_first, check_options,
                 check_start) ==
    /\ Idle(p, {"opened"})
    /\ \E args_ok \in {close_args_ok(argv) : argv \in ArgvSet} :
         LET h0       == Called(pam[p], "close")
             end_time == clock
             el       == elapsed_usec(end_time, h0.start_time)
             h        == [h0 EXCEPT
                            !.args_ok = args_ok,
                            !.get_item_calls =
                               IF /\ ~(options_first /\ ~args_ok)
                                  /\ ~(short_circuit /\ h0.limit = << >>)
                                  /\ ~(check_options /\ ~args_ok)
                                  /\ check_start => h0.start_time >= 0
                                  /\ check_start => end_time >= h0.start_time
                               THEN 1 ELSE 0]
         IN  pam' = [pam EXCEPT ![p] =
                 IF options_first /\ ~args_ok
                 THEN Return(h, "PAM_SYSTEM_ERR", 1)
                 ELSE IF short_circuit /\ h.limit = << >>
                 THEN Return(h, "PAM_SUCCESS", 0)
                 ELSE IF check_options /\ ~args_ok
                 THEN Return(h, "PAM_SYSTEM_ERR", 1)
                 ELSE IF check_start /\ h.start_time < 0
                 THEN Return(h, "PAM_SESSION_ERR", 1)
                 ELSE IF check_start /\ end_time < h.start_time
                 THEN Return(h, "PAM_SESSION_ERR", 1)
                 ELSE IF h.item = "err" THEN Return(h, "PAM_BAD_ITEM", 0)
                 ELSE IF h.item = "null" THEN Return(h, "PAM_SESSION_ERR", 0)
                 ELSE Enter([h EXCEPT !.elapsed_time = el, !.charge = el],
                            "close", "get")]
    /\ UNCHANGED << clock, zone, state_exists, state_file, lock, config,
                    order, spent, probe, io_faults >>

close_session_options_first(p) ==
    close_session_as(p, TRUE, TRUE, TRUE, TRUE)

close_session_always_charges(p) ==
    close_session_as(p, FALSE, FALSE, TRUE, TRUE)

close_session_ignores_options(p) ==
    close_session_as(p, TRUE, FALSE, FALSE, TRUE)

close_session_trusts_start(p) ==
    close_session_as(p, TRUE, FALSE, TRUE, FALSE)

\* pam_sm_close_session up to its call of get_used_time_for_user
pam_sm_close_session(p) ==
    /\ Idle(p, {"opened"})
    /\ \E args_ok \in {close_args_ok(argv) : argv \in ArgvSet} :
         LET h0       == Called(pam[p], "close")
             end_time == clock
             el       == elapsed_usec(end_time, h0.start_time)
             h        == [h0 EXCEPT
                            !.args_ok = args_ok,
                            !.get_item_calls =
                               IF /\ h0.limit # << >>
                                  /\ args_ok
                                  /\ h0.start_time >= 0
                                  /\ end_time >= h0.start_time
                               THEN 1 ELSE 0]
         IN  pam' = [pam EXCEPT ![p] =
                 IF h.limit = << >> THEN Return(h, "PAM_SUCCESS", 0)
                 ELSE IF ~args_ok
                 THEN Return(h, "PAM_SYSTEM_ERR", 1)
                 ELSE IF h.start_time < 0
                 THEN Return(h, "PAM_SESSION_ERR", 1)
                 ELSE IF end_time < h.start_time
                 THEN Return(h, "PAM_SESSION_ERR", 1)
                 ELSE IF h.item = "err" THEN Return(h, "PAM_BAD_ITEM", 0)
                 ELSE IF h.item = "null" THEN Return(h, "PAM_SESSION_ERR", 0)
                 ELSE Enter([h EXCEPT !.elapsed_time = el, !.charge = el],
                            "close", "get")]
    /\ UNCHANGED << clock, zone, state_exists, state_file, lock, config,
                    order, spent, probe, io_faults >>

\* pam_end and the next pam_start of the process: the handle's data is
\* released through cleanup()
pam_end(p) ==
    /\ pam[p].pc = "idle"
    /\ order = "login" => pam[p].stage \in {"refused", "unopened", "closed"}
    /\ pam[p] # FreshHandle(pam[p].user, pam[p].item, pam[p].calls)
    /\ pam' = [pam EXCEPT ![p] =
                 FreshHandle(pam[p].user, pam[p].item, pam[p].calls)]
    /\ UNCHANGED << clock, zone, state_exists, state_file, lock, config,
                    order, spent, probe, io_faults >>

\* the calls made with the lock held: all go through, or the write or read
\* of the header fails, or a read of the scan, or the write of the record
IoOutcomes ==
    IF io_faults THEN {"ok", "header", "scan", "write"} ELSE {"ok"}

\* one read of the scan fails with an error other than EINTR.  set returns
\* at once.  get goes on with buf_bytes at -1 and asks the next read for
\* one byte more than buf holds: where the file has that many left the
\* byte behind buf is overwritten, and the build returns the error all the
\* same or is stopped
ScanOutcomes(file, fn) ==
    IF fn = "get" /\ Len(file) - HeaderLen > RecLen
    THEN {"PAM_SYSTEM_ERR", "SIGSEGV"} ELSE {"PAM_SYSTEM_ERR"}

\* a failure of get_used_time_for_user is passed over by Session Close,
\* which goes on to set_used_time_for_user
ledger_error_passed_over(h, logs) ==
    IF h.entry = "close" /\ h.fn = "get"
    THEN Enter([h EXCEPT !.logs = @ + logs], "close", "set")
    ELSE Return(h, IF h.entry = "acct" THEN "PAM_PERM_DENIED"
                   ELSE "PAM_SESSION_ERR", h.logs + logs)

\* get_/set_used_time_for_user returns PAM_SYSTEM_ERR after logs log
\* entries, and its caller returns its error for that
LedgerError(h, logs) ==
    Return(h, IF h.entry = "acct" THEN "PAM_PERM_DENIED"
              ELSE "PAM_SESSION_ERR", h.logs + logs)

\* open_state_path: setuid(0) and fd = open(statepath, O_RDWR)
open_existing(p) ==
    /\ pam[p].pc = "open"
    /\ \E sys \in SysOutcomes :
          pam' = [pam EXCEPT ![p] =
                    IF sys = "fail" THEN LedgerError(pam[p], 1)
                    ELSE [pam[p] EXCEPT !.pc = IF state_exists THEN "flock"
                                                ELSE "create"]]
    /\ UNCHANGED << clock, zone, state_exists, state_file, lock, config,
                    order, spent, probe, io_faults >>

\* open_state_path: fd = open(statepath, O_RDWR|O_CREAT, 0600) after ENOENT
open_create(p) ==
    /\ pam[p].pc = "create"
    /\ \E sys \in SysOutcomes :
          /\ state_exists' = (state_exists \/ sys = "ok")
          /\ state_file' = IF state_exists THEN state_file ELSE << >>
          /\ pam' = [pam EXCEPT ![p] =
                       IF sys = "fail" THEN LedgerError(pam[p], 1)
                       ELSE [pam[p] EXCEPT !.pc = "flock_new"]]
    /\ UNCHANGED << clock, zone, lock, config, order, spent, probe, io_faults >>

\* open_state_path: flock(fd, LOCK_EX) is granted, or fails and the fd is
\* closed
flock_granted(p) ==
    /\ pam[p].pc \in {"flock", "flock_new"}
    /\ \E sys \in SysOutcomes :
          /\ sys = "ok" => lock = 0
          /\ lock' = IF sys = "ok" THEN p ELSE lock
          /\ pam' = [pam EXCEPT ![p] =
                       IF sys = "fail" THEN LedgerError(pam[p], 1)
                       ELSE [pam[p] EXCEPT !.pc =
                               IF pam[p].pc = "flock" THEN "locked"
                               ELSE "locked_new"]]
    /\ UNCHANGED << clock, zone, state_exists, state_file, config, order,
                    spent, probe, io_faults >>

\* the state file once open_state_path is through with its header: the
\* creating path writes the 12 bytes at offset 0
after_header(file, created) ==
    IF created THEN WriteCells(file, 0, Header) ELSE file

\* the header is not looked at
header_unchecked(file, created) == TRUE

\* open_state_path returns an fd: the header was written, or read and found
\* to be "Format: " and version 1
header_ok(file, created) ==
    \/ created
    \/ /\ Len(file) >= HeaderLen
       /\ SubSeq(file, 1, HeaderLen) = Header

\* the first record is taken for the user's, whatever its name
get_first_record(file, username, today) ==
    IF Len(file) < HeaderLen + RecLen THEN 0
    ELSE used_time_of(SubSeq(file, HeaderLen + 1, HeaderLen + RecLen))

\* the day of the record is not looked at
get_ignores_day(file, username, today) ==
    get_scan(file, username, 0, HeaderLen, ZeroBuf, 0).used_time

\* a record of the day before today still counts
get_yesterday_counts(file, username, today) ==
    get_scan(file, username, today - SecsPerDay, HeaderLen, ZeroBuf,
             0).used_time

\* get_used_time_for_user from the open, locked file
get_used_time_for_user(file, username, today) ==
    get_scan(file, username, today, HeaderLen, ZeroBuf, 0).used_time

\* the record is written at the end of the file, a slot of the user or not
set_always_appends(file, username, today, used_time) ==
    WriteCells(file, Len(file), MakeRecord(username, today, used_time))

\* set_used_time_for_user from the open, locked file: the file it leaves
set_used_time_for_user(file, username, today, used_time) ==
    WriteCells(file, set_scan(file, username, HeaderLen, ZeroBuf, 0),
               MakeRecord(username, today, used_time))

\* the denial test with < for <=
acct_decide_strict(h, used_time) ==
    IF h.timeval < used_time THEN Return(h, "PAM_PERM_DENIED", h.logs)
    ELSE Return([h EXCEPT !.limit = format_timespan(h.timeval - used_time)],
                "PAM_SUCCESS", h.logs)

\* the tail of pam_sm_acct_mgmt, after get_used_time_for_user
acct_decide(h, used_time) ==
    IF h.timeval <= used_time THEN Return(h, "PAM_PERM_DENIED", h.logs)
    ELSE Return([h EXCEPT !.limit = format_timespan(h.timeval - used_time)],
                "PAM_SUCCESS", h.logs)

\* what pam_sm_acct_mgmt calls to publish the remaining time: all goes
\* through, or malloc returns NULL (which is not tested for), or
\* format_timespan returns NULL, or pam_set_data fails
PublishOutcomes ==
    IF io_faults THEN {"ok", "malloc", "format", "store"} ELSE {"ok"}

\* the tail of pam_sm_acct_mgmt with the calls that can fail: a NULL buffer
\* handed to format_timespan is refused by it or written through
acct_publish(h, used_time, pub, ub) ==
    IF h.timeval <= used_time \/ pub = "ok" THEN acct_decide(h, used_time)
    ELSE IF pub = "malloc" THEN Return(h, ub, h.logs)
    ELSE Return(h, "PAM_PERM_DENIED", h.logs)

\* with the lock held: the rest of open_state_path, the scan of the caller
\* (get_ or set_used_time_for_user), close(fd), and the caller's code up to
\* its return or its next open_state_path
locked_body(p) ==
    /\ pam[p].pc \in {"locked", "locked_new"}
    /\ lock = p
    /\ lock' = 0
    /\ \E io \in IoOutcomes, pub \in PublishOutcomes,
          nullbuf \in UndefinedOutcomes :
       LET h       == pam[p]
           created == h.pc = "locked_new"
           file1   == after_header(state_file, created)
           today   == time_today(clock, zone)
           used    == get_used_time_for_user(file1, h.user, today)
       IN  IF io = "header" \/ ~header_ok(state_file, created)
           THEN /\ state_file' = state_file
                /\ spent' = spent
                /\ pam' = [pam EXCEPT ![p] = LedgerError(h, 1)]
           ELSE IF io = "scan"
           THEN /\ state_file' = file1
                /\ spent' = spent
                /\ \E ub \in ScanOutcomes(file1, h.fn) :
                      pam' = [pam EXCEPT ![p] =
                                IF ub = "SIGSEGV" THEN Return(h, ub, h.logs)
                                ELSE LedgerError(h, 0)]
           ELSE IF h.fn = "get"
           THEN /\ state_file' = file1
                /\ spent' = spent
                /\ pam' = [pam EXCEPT ![p] =
                      IF h.entry = "acct"
                      THEN [acct_publish(h, used, pub, nullbuf) EXCEPT
                              !.seen = used]
                      ELSE Enter([h EXCEPT !.used_time = used,
                                    !.elapsed_time =
                                       accumulate(used, h.elapsed_time)],
                                 "close", "set")]
           ELSE IF io = "write"
           THEN /\ state_file' = file1
                /\ spent' = spent
                /\ pam' = [pam EXCEPT ![p] = LedgerError(h, 1)]
           ELSE /\ state_file' = set_used_time_for_user(
                                     file1, h.user, today, h.elapsed_time)
                /\ spent' = [spent EXCEPT ![h.user] = @ + h.charge]
                /\ pam' = [pam EXCEPT ![p] = Return(h, "PAM_SUCCESS", h.logs)]
    /\ UNCHANGED << clock, zone, state_exists, config, order, probe,
                    io_faults >>

\* a second passes
Tick ==
    /\ clock < Clock0 + MaxClock
    /\ clock' = clock + 1
    /\ UNCHANGED << zone, state_exists, state_file, lock, config, pam,
                    order, spent, probe, io_faults >>

ProcStep(p) ==
    \/ pam_sm_acct_mgmt(p)
    \/ pam_sm_open_session(p)
    \/ pam_sm_close_session(p)
    \/ pam_end(p)
    \/ open_existing(p)
    \/ open_create(p)
    \/ flock_granted(p)
    \/ locked_body(p)

Next == Tick \/ \E p \in Procs : ProcStep(p)

\* ------------------------------------------------------- initial states
\* a text line "<user> <limit>\n" of the limits file
Entry(user, limit) == user \o << SPACE >> \o limit \o << NL >>

ConfigFile(text) == [exists |-> TRUE, readable |-> TRUE, text |-> text]

\* ---- the state file read as a header and whole slots
NumSlots(file) ==
    IF Len(file) < HeaderLen THEN 0 ELSE (Len(file) - HeaderLen) \div RecLen

SlotAt(file, k) ==
    SubSeq(file, HeaderLen + (k - 1) * RecLen + 1, HeaderLen + k * RecLen)

\* the first slot holding user's padded name, or 0
SlotOf(file, user) ==
    FirstOf({k \in 1..NumSlots(file) :
               SubSeq(SlotAt(file, k), 1, NameLen) = strncpy(user, NameLen)},
            0)

\* the usage of user recorded for day
RecordedUsage(file, user, day) ==
    LET k == SlotOf(file, user)
    IN  IF k = 0 THEN 0
        ELSE IF last_seen_of(SlotAt(file, k)) = day
        THEN used_time_of(SlotAt(file, k))
        ELSE 0

Rec(user, day, used_time) == MakeRecord(user, day, used_time)

\* the limits file of the concurrent runs: "t 2" and "b 1"
ConfigTwo == ConfigFile(Entry(ted, << 50 >>) \o Entry(bob, << 49 >>))

SpentOf(exists, file, day) ==
    [u \in Users |-> IF exists THEN RecordedUsage(file, u, day) ELSE 0]

NoProbe == [fn |-> "none"]

\* Concurrent logins of one account and of another one.
\* they start with the third day
ClockConc == 2 * SecsPerDay
TodayConc == time_today(ClockConc, 0)

Init ==
    /\ clock = ClockConc
    /\ zone = 0
    /\ lock = 0
    /\ order = "login"
    /\ config = ConfigTwo
    /\ \E f \in { << >>, Header \o Rec(ted, TodayConc, USEC_PER_SEC) } :
          /\ state_exists = (f # << >>)
          /\ state_file = f
          /\ spent = SpentOf(f # << >>, f, TodayConc)
    /\ \E u \in Users :
          pam = [p \in Procs |->
                   FreshHandle(IF p = 1 THEN ted ELSE u, "ok", MaxCalls)]
    /\ probe = NoProbe
    /\ io_faults = FALSE

Spec == Init /\ [][Next]_vars

\* ---- logins of one account that follow one another
\* "t 2"; "t 1", "b 3", "t 3s"; "t 0"; "t 7s 1us"
ConfigsSeq ==
    { ConfigFile(Entry(ted, << 50 >>)),
      ConfigFile(Entry(ted, << 49 >>) \o Entry(bob, << 51 >>)
                   \o Entry(ted, << 51 >> \o UnitSec)),
      ConfigFile(Entry(ted, << 48 >>)),
      ConfigFile(Entry(ted, << 55 >> \o UnitSec \o << SPACE, 49 >>
                              \o UnitUsec)) }

\* well-formed state files
LedgersSeq ==
    { << >>,
      Header,
      Header \o Rec(bob, Today0, 1) \o Rec(ted, Today0, USEC_PER_SEC),
      Header \o Rec(ted, Yesterday, USEC_INFINITY),
      Header \o Rec(ted, Today0, 2 * USEC_PER_SEC) \o Rec(bob, Today0, 3),
      Header \o Rec(ted, Today0, USEC_INFINITY - 1) }

InitSeq ==
    /\ clock = Clock0
    /\ zone = 0
    /\ lock = 0
    /\ order = "login"
    /\ config \in ConfigsSeq
    /\ \E f \in LedgersSeq :
          /\ state_exists = (f # << >>)
          /\ state_file = f
          /\ spent = SpentOf(f # << >>, f, Today0)
    /\ pam = [p \in Procs |->
                IF p = 1 THEN FreshHandle(ted, "ok", MaxCallsSeq)
                ELSE FreshHandle(bob, "ok", 0)]
    /\ probe = NoProbe
    /\ io_faults = FALSE

SpecSeq == InitSeq /\ [][Next]_vars

\* ---- logins of one account over state files of every shape
\* "t 2"; "t 7s"
ConfigsLedger ==
    { ConfigFile(Entry(ted, << 50 >>)),
      ConfigFile(Entry(ted, << 55 >> \o UnitSec)) }

\* no file; no slot; another user's record; the user's record of today and
\* of an earlier day; a last slot cut short after 1, 2 or 3 of its cells
LedgersAll ==
    { << >>,
      Header,
      Header \o Rec(bob, Today0, 1),
      Header \o Rec(ted, Today0, USEC_PER_SEC) \o Rec(bob, Today0, 1),
      Header \o Rec(ted, Yesterday, 3),
      Header \o << 116 >>,
      Header \o Rec(bob, Today0, 1) \o << 116, NUL >>,
      Header \o Rec(ted, Today0, USEC_PER_SEC) \o << 98, NUL, Today0 >> }

InitLedger ==
    /\ clock = Clock0
    /\ zone = 0
    /\ lock = 0
    /\ order = "login"
    /\ config \in ConfigsLedger
    /\ \E f \in LedgersAll :
          /\ state_exists = (f # << >>)
          /\ state_file = f
          /\ spent = SpentOf(f # << >>, f, Today0)
    /\ pam = [p \in Procs |->
                IF p = 1 THEN FreshHandle(ted, "ok", MaxCallsSeq)
                ELSE FreshHandle(bob, "ok", 0)]
    /\ probe = NoProbe
    /\ io_faults = FALSE

SpecLedger == InitLedger /\ [][Next]_vars

\* ---- the accumulation of pam_sm_close_session applied alone to every pair
\* of usec_t values
Quiet ==
    /\ clock = Clock0
    /\ zone = 0
    /\ lock = 0
    /\ order = "login"
    /\ config = ConfigTwo
    /\ state_exists = FALSE
    /\ state_file = << >>
    /\ spent = [u \in Users |-> 0]
    /\ pam = [p \in Procs |-> FreshHandle(ted, "ok", 0)]
    /\ io_faults = FALSE

InitAcc ==
    /\ Quiet
    /\ probe \in [fn : {"accumulate"}, used_time : 0..USEC_INFINITY,
                  elapsed_time : 0..USEC_INFINITY, done : {FALSE},
                  out : {0}]

accumulate_step ==
    /\ probe.fn = "accumulate"
    /\ ~probe.done
    /\ probe' = [probe EXCEPT
                   !.done = TRUE,
                   !.out = accumulate(probe.used_time, probe.elapsed_time)]
    /\ UNCHANGED << clock, zone, state_exists, state_file, lock, config, pam,
                    order, spent, io_faults >>

NextAcc == accumulate_step

SpecAcc == InitAcc /\ [][NextAcc]_vars

\* ---- the limit pam_sm_acct_mgmt resolves for a user from limits files of
\* up to MaxEntries entries
\* "1", "2", "3s"
LimitTexts == { << 49 >>, << 50 >>, << 51 >> \o UnitSec }

EntrySeqs ==
    UNION { [1..n -> Users \X LimitTexts] : n \in 1..MaxEntries }

RECURSIVE ConfigText(_)
ConfigText(entries) ==
    IF Len(entries) = 0 THEN << >>
    ELSE Entry(Head(entries)[1], Head(entries)[2])
             \o ConfigText(Tail(entries))

InitConf ==
    /\ Quiet
    /\ probe \in [fn : {"resolve"}, entries : EntrySeqs, username : Users,
                  done : {FALSE}, ret : {"none"}, out : {<< >>}]

\* parse_config_file and the loop over user_table
resolve_step ==
    /\ probe.fn = "resolve"
    /\ ~probe.done
    /\ \E stray \in StrayBytes :
         LET cf == parse_config_file(ConfigFile(ConfigText(probe.entries)),
                                     stray)
         IN  probe' = [probe EXCEPT
                         !.done = TRUE,
                         !.ret = cf.ret,
                         !.out = IF cf.ret = "PAM_SUCCESS"
                                 THEN match_user(cf.table, probe.username,
                                                 << >>)
                                 ELSE << >>]
    /\ UNCHANGED << clock, zone, state_exists, state_file, lock, config, pam,
                    order, spent, io_faults >>

NextConf == resolve_step

SpecConf == InitConf /\ [][NextConf]_vars

\* ---- a host that calls the entry points in any order, with any options,
\* with or without a user name, over limits files of every kind
\* " t 2": white space before the user name
LineLeadingSpace == << SPACE >> \o Entry(ted, << 50 >>)
\* "t": no limit
LineNoLimit == ted \o << NL >>
\* "t #2": the limit is commented out, white space before the '#'
LineLimitCommented == ted \o << SPACE, HASH, 50, NL >>
\* "t#2": the limit is commented out, no white space before the '#'
LineLimitCommentedTight == ted \o << HASH, 50, NL >>
\* "#", "" and " ": a comment, an empty and a blank line
LineComment == << HASH, NL >>
LineEmpty == << NL >>
LineBlank == << SPACE, NL >>

ConfigsHost ==
    { [exists |-> FALSE, readable |-> FALSE, text |-> << >>],
      [exists |-> TRUE, readable |-> FALSE, text |-> << >>],
      ConfigFile(Entry(ted, << 50 >>)),
      ConfigFile(LineComment \o LineEmpty \o LineBlank),
      ConfigFile(Entry(bob, << 49 >>) \o LineLeadingSpace),
      ConfigFile(LineNoLimit \o Entry(bob, << 49 >>)),
      ConfigFile(Entry(bob, << 49 >>) \o LineLimitCommented),
      ConfigFile(LineLimitCommentedTight),
      ConfigFile(Entry(ted, << 120 >>)) }

LedgersHost == { << >>, Header \o Rec(ted, Today0, USEC_PER_SEC) }

InitHost ==
    /\ clock = Clock0
    /\ zone = 0
    /\ lock = 0
    /\ order = "any"
    /\ config \in ConfigsHost
    /\ \E f \in LedgersHost :
          /\ state_exists = (f # << >>)
          /\ state_file = f
          /\ spent = SpentOf(f # << >>, f, Today0)
    /\ \E u \in Users, item \in {"ok", "err", "null"} :
          pam = [p \in Procs |->
                   IF p = 1 THEN FreshHandle(u, item, MaxCallsHost)
                   ELSE FreshHandle(bob, "ok", 0)]
    /\ probe = NoProbe
    /\ io_faults = FALSE

SpecHost == InitHost /\ [][Next]_vars

\* state files open_state_path turns down: shorter than a header, another
\* tag, another version; and two it takes
LedgersFault ==
    { << >>,
      Header \o Rec(ted, Today0, USEC_PER_SEC),
      Header \o Rec(bob, Today0, 1) \o Rec(ted, Today0, USEC_PER_SEC),
      << FormatTag >>,
      << FormatTag + 1, FormatVersion >>,
      << FormatTag, FormatVersion + 1 >> \o Rec(ted, Today0, 1) }

\* one login of ted, who has a limit, on a host where the system calls on
\* the state file may fail
InitFault ==
    /\ clock = Clock0
    /\ zone = 0
    /\ lock = 0
    /\ order = "login"
    /\ config \in ConfigsLedger
    /\ \E f \in LedgersFault :
          /\ state_exists = (f # << >>)
          /\ state_file = f
          /\ spent = SpentOf(header_ok(f, FALSE), f, Today0)
    /\ pam = [p \in Procs |->
                IF p = 1 THEN FreshHandle(ted, "ok", MaxCallsSeq)
                ELSE FreshHandle(bob, "ok", 0)]
    /\ probe = NoProbe
    /\ io_faults = TRUE

SpecFault == InitFault /\ [][Next]_vars

\* ---- a host whose administrator sets the clock and whose application
\* sets PAM_USER between the calls
\* time(NULL) is set back: end_time = time(NULL) of a later
\* pam_sm_close_session can lie before the stored start time
settimeofday ==
    /\ \E now \in Clock0..(clock - 1) : clock' = now
    /\ UNCHANGED << zone, state_exists, state_file, lock, config, pam,
                    order, spent, probe, io_faults >>

\* the application changes what pam_get_item(PAM_USER) gives the module:
\* the user name, an error, or PAM_SUCCESS with a NULL name
pam_set_item(p) ==
    /\ pam[p].pc = "idle"
    /\ pam[p].calls > 0
    /\ \E item \in {"ok", "err", "null"} \ {pam[p].item} :
          pam' = [pam EXCEPT ![p].item = item]
    /\ UNCHANGED << clock, zone, state_exists, state_file, lock, config,
                    order, spent, probe, io_faults >>

NextEnv == Next \/ settimeofday \/ \E p \in Procs : pam_set_item(p)

InitEnv ==
    /\ clock = Clock0
    /\ zone = 0
    /\ lock = 0
    /\ order = "any"
    /\ config \in ConfigsLedger
    /\ \E f \in LedgersHost :
          /\ state_exists = (f # << >>)
          /\ state_file = f
          /\ spent = SpentOf(f # << >>, f, Today0)
    /\ pam = [p \in Procs |->
                IF p = 1 THEN FreshHandle(ted, "ok", MaxCallsHost)
                ELSE FreshHandle(bob, "ok", 0)]
    /\ probe = NoProbe
    /\ io_faults = FALSE

SpecEnv == InitEnv /\ [][NextEnv]_vars

\* ---- logins on a host where a read of the state file can fail again
\* and again
\* width of ssize_t, scaled
SsizeBits == 2

\* n - 1 in ssize_t
ssize_dec(n) ==
    ((n - 1 + 2 ^ (SsizeBits - 1) + 2 ^ SsizeBits) % (2 ^ SsizeBits))
      - 2 ^ (SsizeBits - 1)

\* get_used_time_for_user: a read() of the scan returns -1 with an errno
\* other than EINTR.  retval is set, buf_bytes goes down by one and the
\* loop goes on, the lock still held
read_error(p) ==
    /\ pam[p].pc \in {"locked", "locked_new"}
    /\ lock = p
    /\ pam[p].fn = "get"
    /\ header_ok(state_file, pam[p].pc = "locked_new")
    /\ state_file' = after_header(state_file, pam[p].pc = "locked_new")
    /\ pam' = [pam EXCEPT ![p].pc = "reading", ![p].buf_bytes = ssize_dec(0)]
    /\ UNCHANGED << clock, zone, state_exists, lock, config, order, spent,
                    probe, io_faults >>

\* the next pass of the loop after a failed read: the read fails again, or
\* the reads go through to the end of the file, the fd is closed and
\* PAM_SYSTEM_ERR is returned
read_again(p) ==
    /\ pam[p].pc = "reading"
    /\ lock = p
    /\ \E r \in {"ok", "fail"}, ub \in ScanOutcomes(state_file, "get") :
          /\ lock' = IF r = "ok" THEN 0 ELSE lock
          /\ pam' = [pam EXCEPT ![p] =
                       IF r = "fail"
                       THEN [@ EXCEPT !.buf_bytes = ssize_dec(@)]
                       ELSE IF ub = "SIGSEGV" THEN Return(@, ub, @.logs)
                       ELSE LedgerError(@, 0)]
    /\ UNCHANGED << clock, zone, state_exists, state_file, config, order,
                    spent, probe, io_faults >>

NextLive ==
    \E p \in Procs : ProcStep(p) \/ read_error(p) \/ read_again(p)

\* the kernel runs every process that can run, and a process waiting in
\* flock gets the lock if it is free again and again
FairLive ==
    \A p \in Procs :
       /\ WF_vars(open_existing(p))
       /\ WF_vars(open_create(p))
       /\ SF_vars(flock_granted(p))
       /\ WF_vars(locked_body(p))
       /\ WF_vars(read_again(p))

SpecLive == Init /\ [][NextLive]_vars /\ FairLive

\* ---- a host that keeps no order, for users with and without a limit,
\* where calls into the system may fail
InitOpen ==
    /\ clock = Clock0
    /\ zone = 0
    /\ lock = 0
    /\ order = "any"
    /\ config \in { [exists |-> FALSE, readable |-> FALSE, text |-> << >>],
                    ConfigFile(Entry(ted, << 50 >>)),
                    ConfigFile(LineNoLimit) }
    /\ \E f \in LedgersHost :
          /\ state_exists = (f # << >>)
          /\ state_file = f
          /\ spent = SpentOf(f # << >>, f, Today0)
    /\ \E u \in Users, item \in {"ok", "err"} :
          pam = [p \in Procs |->
                   IF p = 1 THEN FreshHandle(u, item, MaxCallsHost)
                   ELSE FreshHandle(bob, "ok", 0)]
    /\ probe = NoProbe
    /\ io_faults = TRUE

SpecOpen == InitOpen /\ [][Next]_vars

\* ---- a host on which the state file is replaced behind the module's
\* back
\* files whose first cells are not the header
LedgersBad ==
    { << FormatTag >>,
      << FormatTag + 1, FormatVersion >>,
      << FormatTag, FormatVersion + 1 >> \o Rec(ted, Today0, 1) }

\* another program writes statepath while no module call holds the lock
overwrite_state_file ==
    /\ lock = 0
    /\ state_exists
    /\ state_file \notin LedgersBad
    /\ state_file' \in LedgersBad
    /\ UNCHANGED << clock, zone, state_exists, lock, config, pam, order,
                    spent, probe, io_faults >>

NextBad == Next \/ overwrite_state_file

InitBad ==
    /\ clock = Clock0
    /\ zone = 0
    /\ lock = 0
    /\ order = "login"
    /\ config \in ConfigsLedger
    /\ \E f \in LedgersFault :
          /\ state_exists = (f # << >>)
          /\ state_file = f
          /\ spent = SpentOf(header_ok(f, FALSE), f, Today0)
    /\ pam = [p \in Procs |->
                IF p = 1 THEN FreshHandle(ted, "ok", MaxCalls)
                ELSE FreshHandle(bob, "ok", 0)]
    /\ probe = NoProbe
    /\ io_faults = FALSE

SpecBad == InitBad /\ [][NextBad]_vars

\* ================================================================ claims
Today == time_today(clock, zone)

\* the limit the limits file gives user, in microseconds
ConfiguredLimit(user) ==
    parse_time(match_user(parse_config_file(config, NUL).table, user, << >>),
               USEC_PER_SEC).usec

AllIdle == \A p \in Procs : pam[p].pc = "idle"

StoredToday(user, day) ==
    RecordedUsage(IF state_exists THEN state_file ELSE << >>, user, day)

\* the step in which p's pam_sm_acct_mgmt, holding a limit, has read the
\* usage without error and returns
AcctDecides(p) ==
    /\ pam[p].pc \in {"locked", "locked_new"}
    /\ pam[p].entry = "acct"
    /\ header_ok(state_file, pam[p].pc = "locked_new")
    /\ pam'[p].pc = "idle"

\* the step in which p's set_used_time_for_user writes its record
SetWrites(p) ==
    /\ pam[p].pc \in {"locked", "locked_new"}
    /\ pam[p].fn = "set"
    /\ pam'[p].pc = "idle"
    /\ pam'[p].ret = "PAM_SUCCESS"

\* C1: when all Session Closes of a day have finished, the usage stored for
\* each user is the usage stored before plus the sum of their elapsed times,
\* saturating (no update is lost).
C1_NoLostUpdate ==
    (AllIdle /\ Today = TodayConc) =>
        \A u \in Users :
            StoredToday(u, TodayConc) = Min(spent[u], USEC_INFINITY)

\* C2: for logins of one user that follow one another on one day, the state
\* file holds the sum of the elapsed times; an Admission Check publishes the
\* limit minus that sum while the sum is below the limit and denies once the
\* sum has reached it.
C2_SuccessiveSessions ==
    /\ [](( pam[1].pc = "idle" /\ Today = Today0 ) =>
            StoredToday(ted, Today0) = Min(spent[ted], USEC_INFINITY))
    /\ [][ (AcctDecides(1) /\ Today = Today0) =>
             LET L   == ConfiguredLimit(ted)
                 sum == Min(spent[ted], USEC_INFINITY)
             IN  /\ pam[1].timeval = L
                 /\ sum < L =>
                       /\ pam'[1].ret = "PAM_SUCCESS"
                       /\ pam'[1].limit = format_timespan(L - sum)
                 /\ sum >= L => pam'[1].ret = "PAM_PERM_DENIED" ]_vars

\* two logins were charged and the third one is denied
C2_Witness ==
    /\ pam[1].calls = MaxCallsSeq - 7
    /\ pam[1].stage = "refused"
    /\ pam[1].ret = "PAM_PERM_DENIED"
    /\ Today = Today0
    /\ state_file = Header \o Rec(ted, Today0, 2 * USEC_PER_SEC)
    /\ spent[ted] = ConfiguredLimit(ted)

\* C3: an Admission Check that has resolved a limit and read the usage
\* denies with PAM_PERM_DENIED exactly when limit <= used, and then
\* publishes nothing; otherwise it succeeds.
C3_DenyIffExhausted ==
    [][ \A p \in Procs : AcctDecides(p) =>
          LET used == get_used_time_for_user(
                          after_header(state_file, pam[p].pc = "locked_new"),
                          pam[p].user, Today)
          IN  /\ pam'[p].ret = "PAM_PERM_DENIED" <=> pam[p].timeval <= used
              /\ pam'[p].ret \in {"PAM_PERM_DENIED", "PAM_SUCCESS"}
              /\ pam[p].timeval <= used =>
                    /\ pam'[p].limit = << >>
                    /\ state_file' = after_header(state_file,
                                                  pam[p].pc = "locked_new") ]_vars

\* denied with used = limit > 0
C3_Witness ==
    /\ pam[1].stage = "refused"
    /\ pam[1].ret = "PAM_PERM_DENIED"
    /\ pam[1].limit = << >>
    /\ ConfiguredLimit(ted) > 0
    /\ StoredToday(ted, Today) = ConfiguredLimit(ted)

\* C4: the value an admitting Admission Check publishes is limit - used,
\* used being the identity's own usage recorded for the current day (zero
\* without a record); it is positive and at most the limit.
C4_PublishesRemaining ==
    [][ \A p \in Procs : (AcctDecides(p) /\ pam'[p].ret = "PAM_SUCCESS") =>
          LET used == StoredToday(pam[p].user, Today)
              rem  == parse_time(pam'[p].limit, USEC_PER_SEC)
          IN  /\ pam'[p].limit = format_timespan(pam[p].timeval - used)
              /\ ~rem.err
              /\ rem.usec = pam[p].timeval - used
              /\ rem.usec > 0
              /\ rem.usec <= pam[p].timeval ]_vars

\* admitted with part of the limit left, beside another user's record
C4_Witness ==
    /\ pam[1].stage = "checked"
    /\ pam[1].ret = "PAM_SUCCESS"
    /\ SlotOf(state_file, bob) # 0
    /\ StoredToday(ted, Today) > 0
    /\ pam[1].limit =
          format_timespan(ConfiguredLimit(ted) - StoredToday(ted, Today))

\* the step in which p's get_used_time_for_user reads the usage without
\* error and returns it to its caller
GetReads(p) ==
    /\ pam[p].pc \in {"locked", "locked_new"}
    /\ pam[p].fn = "get"
    /\ header_ok(state_file, pam[p].pc = "locked_new")
    /\ pam'[p].pc \notin {"locked", "locked_new"}

\* the state file holds a record of user whose day is before today
StaleRecord(user) ==
    /\ state_exists
    /\ SlotOf(state_file, user) # 0
    /\ last_seen_of(SlotAt(state_file, SlotOf(state_file, user))) < Today

\* C5: whatever the state file held (nothing, other users, a record of the
\* user for today or an earlier day, a last slot cut short), get for the
\* user right after a successful set(user, U) on the same day returns U.
C5_GetAfterSet ==
    [][ \A p \in Procs : SetWrites(p) =>
          get_used_time_for_user(state_file', pam[p].user, Today)
              = pam[p].elapsed_time ]_vars

\* C6 as amended: a record of an earlier day is read as zero usage whatever
\* its counter is, the read leaves the state file as it is, and an Admission
\* Check of a user whose limit is above zero publishes the full limit (a
\* limit of zero is denied).
C6_StaleReadsZero ==
    [][ \A p \in Procs : (GetReads(p) /\ StaleRecord(pam[p].user)) =>
          /\ state_file' = state_file
          /\ pam[p].entry = "close" => pam'[p].used_time = 0
          /\ (pam[p].entry = "acct" /\ pam[p].timeval > 0) =>
                /\ pam'[p].ret = "PAM_SUCCESS"
                /\ pam'[p].limit = format_timespan(pam[p].timeval)
          /\ (pam[p].entry = "acct" /\ pam[p].timeval = 0) =>
                pam'[p].ret = "PAM_PERM_DENIED" ]_vars

\* admitted with the full limit over yesterday's record of the largest
\* counter
C6_Witness ==
    /\ pam[1].stage = "checked"
    /\ pam[1].ret = "PAM_SUCCESS"
    /\ Today = Today0
    /\ state_file = Header \o Rec(ted, Yesterday, USEC_INFINITY)
    /\ ConfiguredLimit(ted) > 0
    /\ pam[1].limit = format_timespan(ConfiguredLimit(ted))

\* C6 as stated: over a record of an earlier day every Admission Check
\* admits with the full limit as remaining, and the read leaves the state
\* file as it is.
C6_StaleAdmitsAlways ==
    [][ \A p \in Procs : (AcctDecides(p) /\ StaleRecord(pam[p].user)) =>
          /\ state_file' = state_file
          /\ pam'[p].ret = "PAM_SUCCESS"
          /\ pam'[p].limit = format_timespan(pam[p].timeval) ]_vars

\* C7: with a last slot cut short in the state file, get and set end
\* without an error and the cut slot counts as absent: on one day every
\* later get reads the usage recorded in the whole slots plus what the
\* closes since have added.
C7_TruncatedAsAbsent ==
    [][ \A p \in Procs : (GetReads(p) /\ Today = Today0) =>
          LET sum == Min(spent[pam[p].user], USEC_INFINITY)
          IN  /\ pam[p].entry = "close" =>
                    /\ pam'[p].used_time = sum
                    /\ pam'[p].fn = "set"
              /\ pam[p].entry = "acct" =>
                    /\ pam'[p].ret \in {"PAM_SUCCESS", "PAM_PERM_DENIED"}
                    /\ pam'[p].ret = "PAM_PERM_DENIED" <=>
                          pam[p].timeval <= sum
                    /\ pam[p].timeval > sum =>
                          pam'[p].limit =
                              format_timespan(pam[p].timeval - sum) ]_vars

\* no pam_sm_close_session has been entered yet: under the login order a
\* handle enters it with its third call
NoCloseBegun == \A r \in Procs : pam[r].calls > MaxCalls - 3

\* C8: an Admission Check decides from the recorded usage alone: while no
\* Session Close has begun, a check for a user of whom another login was
\* admitted, its session open or not, admits too and publishes the same
\* remaining value; the time of the sessions of one day can so exceed the
\* limit.
C8_ParallelAdmission ==
    [][ \A p, q \in Procs :
          ( /\ p # q
            /\ pam[q].user = pam[p].user
            /\ AcctDecides(p)
            /\ pam[q].pc = "idle"
            /\ pam[q].stage \in {"checked", "opened"}
            /\ pam[q].limit # << >>
            /\ NoCloseBegun
            /\ Today = TodayConc ) =>
          /\ pam'[p].ret = "PAM_SUCCESS"
          /\ pam'[p].limit = pam[q].limit
          /\ pam'[p].seen = pam[q].seen ]_vars

\* two logins of ted were admitted over the same recorded usage with the
\* whole limit of 2 s as remaining, both sessions lasted the 2 s, and the
\* day's usage is twice the limit
C8_Witness ==
    /\ \A p \in Procs :
          /\ pam[p].user = ted
          /\ pam[p].stage = "closed"
          /\ pam[p].seen = 0
          /\ pam[p].limit = format_timespan(ConfiguredLimit(ted))
    /\ clock = ClockConc + 2
    /\ ConfiguredLimit(ted) = 2 * USEC_PER_SEC
    /\ spent[ted] = 2 * ConfiguredLimit(ted)
    /\ spent[ted] > ConfiguredLimit(ted)

\* C9: the usage a Session Close stores is used + elapsed cut off at the
\* largest usec_t value: min(used + elapsed, USEC_INFINITY), never below
\* used or elapsed, for every pair of usec_t values.
C9_Saturates ==
    (probe.fn = "accumulate" /\ probe.done) =>
        /\ probe.out \in 0..USEC_INFINITY
        /\ probe.out = Min(probe.used_time + probe.elapsed_time,
                           USEC_INFINITY)
        /\ probe.out >= probe.used_time
        /\ probe.out >= probe.elapsed_time

\* a sum one above the largest value is stored as the largest value
C9_Witness ==
    /\ probe.fn = "accumulate"
    /\ probe.done
    /\ probe.used_time = USEC_INFINITY - 1
    /\ probe.elapsed_time = 2
    /\ probe.out = USEC_INFINITY

\* the index of the last entry of user in entries, or 0
LastEntryOf(entries, user) ==
    FirstOf({i \in 1..Len(entries) :
               /\ entries[i][1] = user
               /\ \A j \in (i + 1)..Len(entries) : entries[j][1] # user},
            0)

\* C10: from a limits file that parses, a user with several entries (two,
\* three or more, entries of other users between them or not) gets the
\* limit text of the last of them in file order.
C10_LastEntryWins ==
    (probe.fn = "resolve" /\ probe.done) =>
        LET k == LastEntryOf(probe.entries, probe.username)
        IN  /\ probe.ret = "PAM_SUCCESS"
            /\ probe.out = IF k = 0 THEN << >> ELSE probe.entries[k][2]

\* three entries of ted with bob's between them: the third one's text
C10_Witness ==
    /\ probe.fn = "resolve"
    /\ probe.done
    /\ probe.username = ted
    /\ probe.entries = << << ted, << 49 >> >>, << bob, << 50 >> >>,
                          << ted, << 50 >> >>, << bob, << 49 >> >>,
                          << ted, << 51 >> \o UnitSec >> >>
    /\ probe.out = << 51 >> \o UnitSec

\* ---- the steps in which a host calls an entry point of p's handle
HostCalls(p) ==
    /\ pam[p].pc = "idle"
    /\ pam'[p].calls = pam[p].calls - 1

AcctCalled(p) ==
    /\ HostCalls(p)
    /\ \/ pam'[p].entry = "acct"
       \/ pam'[p].pc = "idle" /\ pam'[p].stage \in {"checked", "refused"}

OpenCalled(p) ==
    /\ HostCalls(p)
    /\ pam'[p].pc = "idle"
    /\ pam'[p].stage \in {"opened", "unopened"}

CloseCalled(p) ==
    /\ HostCalls(p)
    /\ \/ pam'[p].entry = "close"
       \/ pam'[p].pc = "idle" /\ pam'[p].stage = "closed"

\* the step leaves the state file alone: not opened, not created, not
\* locked, not written
LedgerUntouched(p) ==
    /\ pam'[p].pc = "idle"
    /\ state_exists' = state_exists
    /\ state_file' = state_file
    /\ lock' = lock

\* C11: a Session Close of a session for which no remaining time was
\* published returns PAM_SUCCESS at once, without opening, creating or
\* writing the state file, whatever its options, the session's start
\* time and the user name are.
C11_CloseWithoutLimit ==
    [][ \A p \in Procs : (CloseCalled(p) /\ pam[p].limit = << >>) =>
          /\ pam'[p].ret = "PAM_SUCCESS"
          /\ pam'[p].logs = 0
          /\ pam'[p].get_item_calls = 0
          /\ LedgerUntouched(p) ]_vars

\* closed with an unknown option, without a session start and without a
\* user name, and there is no state file
C11_Witness ==
    /\ pam[1].stage = "closed"
    /\ pam[1].ret = "PAM_SUCCESS"
    /\ pam[1].limit = << >>
    /\ ~pam[1].args_ok
    /\ pam[1].start_time < 0
    /\ pam[1].item = "null"
    /\ ~state_exists

\* the limits file is absent, or holds entries of other users only
Unrestricted(user) ==
    \/ ~config.exists
    \/ /\ config.readable
       /\ \A i \in 1..Len(fgets_lines(config.text)) :
             fgets_lines(config.text)[i] \in
                 { Entry(v, l) : v \in Users \ {user}, l \in LimitTexts }

\* C12: for a user without an entry in the limits file, or without a limits
\* file, every call of the three entry points (with recognized options)
\* returns PAM_IGNORE or PAM_SUCCESS and the state file stays as it was: it
\* is not created, opened or written.
C12_UnrestrictedUser ==
    [][ \A p \in Procs :
          (HostCalls(p) /\ pam[p].item = "ok" /\ Unrestricted(pam[p].user)) =>
          /\ LedgerUntouched(p)
          /\ pam'[p].limit = << >>
          /\ (AcctCalled(p) /\ pam'[p].args_ok) =>
                pam'[p].ret = "PAM_IGNORE"
          /\ OpenCalled(p) => pam'[p].ret = "PAM_SUCCESS"
          /\ CloseCalled(p) => pam'[p].ret = "PAM_SUCCESS" ]_vars

\* bob, who has no entry, has been checked, has had a session, and it is
\* closed: there is still no state file
C12_Witness ==
    /\ pam[1].user = bob
    /\ Unrestricted(bob)
    /\ config.exists
    /\ pam[1].stage = "closed"
    /\ pam[1].start_time >= 0
    /\ pam[1].calls = MaxCallsHost - 3
    /\ pam[1].ret = "PAM_SUCCESS"
    /\ ~state_exists

\* lines that are not entries: white space before the user name, no limit
BadLines == { LineLeadingSpace, LineNoLimit, LineLimitCommented }

Malformed(cfg) ==
    /\ cfg.exists
    /\ cfg.readable
    /\ \E i \in 1..Len(fgets_lines(cfg.text)) :
          fgets_lines(cfg.text)[i] \in BadLines

\* C13: when a line of the limits file does not parse, the file counts for
\* nothing: the Admission Check of every user, with a valid entry before
\* or after that line or with none, returns PAM_PERM_DENIED, publishes
\* nothing and leaves the state file alone.
C13_MalformedRejected ==
    [][ \A p \in Procs :
          ( /\ AcctCalled(p)
            /\ pam'[p].args_ok
            /\ pam[p].item = "ok"
            /\ Malformed(config) ) =>
          /\ pam'[p].ret = "PAM_PERM_DENIED"
          /\ pam'[p].limit = << >>
          /\ pam'[p].logs = 1
          /\ LedgerUntouched(p) ]_vars

\* bob is denied though his entry comes before the line that does not parse
C13_Witness ==
    /\ config = ConfigFile(Entry(bob, << 49 >>) \o LineLeadingSpace)
    /\ pam[1].user = bob
    /\ pam[1].stage = "refused"
    /\ pam[1].ret = "PAM_PERM_DENIED"
    /\ pam[1].args_ok
    /\ pam[1].get_item_calls = 1
    /\ pam[1].limit = << >>
    /\ ~state_exists

\* lines that hold a user name and no limit once the newline, the comment
\* and the trailing white space are gone
NoLimitLines == { LineNoLimit, LineLimitCommented, LineLimitCommentedTight }

\* C14: a limits file with a line that is a user name without a limit,
\* the limit missing or commented out, with or without white space before
\* the '#', is malformed: the Admission Check returns PAM_PERM_DENIED and
\* publishes nothing.
C14_NoLimitMalformed ==
    [][ \A p \in Procs :
          ( /\ AcctCalled(p)
            /\ pam'[p].args_ok
            /\ pam[p].item = "ok"
            /\ config.exists /\ config.readable
            /\ \E i \in 1..Len(fgets_lines(config.text)) :
                  fgets_lines(config.text)[i] \in NoLimitLines ) =>
          /\ pam'[p].ret = "PAM_PERM_DENIED"
          /\ pam'[p].limit = << >>
          /\ LedgerUntouched(p) ]_vars

\* the limits file is absent, or holds comments, empty and blank lines only
NotFound(cfg) ==
    \/ ~cfg.exists
    \/ /\ cfg.readable
       /\ \A i \in 1..Len(fgets_lines(cfg.text)) :
             fgets_lines(cfg.text)[i] \in {LineComment, LineEmpty, LineBlank}

\* C15: without a limits file, or with one of blank and comment lines
\* only, the Admission Check returns PAM_IGNORE, publishes nothing and
\* leaves the state file alone.
C15_NotFoundIgnored ==
    [][ \A p \in Procs :
          ( /\ AcctCalled(p)
            /\ pam'[p].args_ok
            /\ pam[p].item = "ok"
            /\ NotFound(config) ) =>
          /\ pam'[p].ret = "PAM_IGNORE"
          /\ pam'[p].limit = << >>
          /\ LedgerUntouched(p) ]_vars

\* C16: without a user name, the framework failing to give one or giving
\* none, the Admission Check returns PAM_BAD_ITEM before it reads the
\* limits file or the state file, and publishes nothing.
C16_NoIdentity ==
    [][ \A p \in Procs :
          ( /\ AcctCalled(p)
            /\ pam'[p].args_ok
            /\ pam[p].item \in {"err", "null"} ) =>
          /\ pam'[p].ret = "PAM_BAD_ITEM"
          /\ pam'[p].limit = pam[p].limit
          /\ pam'[p].logs = 0
          /\ LedgerUntouched(p) ]_vars

\* C17 as amended: with an option that is not a recognized one, the
\* Admission Check returns PAM_PERM_DENIED and the Session Close of a
\* session with a published limit returns PAM_SYSTEM_ERR; neither
\* publishes anything or touches the state file.
C17_UnknownOption ==
    [][ \A p \in Procs :
          /\ (AcctCalled(p) /\ ~pam'[p].args_ok) =>
                /\ pam'[p].ret = "PAM_PERM_DENIED"
                /\ pam'[p].limit = pam[p].limit
                /\ LedgerUntouched(p)
          /\ (CloseCalled(p) /\ ~pam'[p].args_ok /\ pam[p].limit # << >>) =>
                /\ pam'[p].ret = "PAM_SYSTEM_ERR"
                /\ pam'[p].logs = 1
                /\ LedgerUntouched(p) ]_vars

\* a session with a published limit was closed with an unknown option:
\* PAM_SYSTEM_ERR, and the state file is the one the check created
C17_Witness ==
    /\ pam[1].stage = "closed"
    /\ ~pam[1].args_ok
    /\ pam[1].limit # << >>
    /\ pam[1].start_time >= 0
    /\ pam[1].ret = "PAM_SYSTEM_ERR"
    /\ state_file = Header

\* C17 as stated: with an option that is not a recognized one, the
\* Admission Check and the Session Close return PAM_SYSTEM_ERR, and
\* neither publishes anything or touches the state file.
C17_UnknownOptionSystemError ==
    [][ \A p \in Procs :
          ( /\ ~pam'[p].args_ok
            /\ AcctCalled(p) \/ CloseCalled(p) ) =>
          /\ pam'[p].ret = "PAM_SYSTEM_ERR"
          /\ pam'[p].limit = pam[p].limit
          /\ LedgerUntouched(p) ]_vars

\* C18: an Admission Check with an unrecognized option returns
\* PAM_PERM_DENIED before anything else is done: pam_get_item is not
\* called, nothing is published, the limits file and the state file are
\* not read, and one log entry is written.
C18_UnknownOptionFirst ==
    [][ \A p \in Procs : (AcctCalled(p) /\ ~pam'[p].args_ok) =>
          /\ pam'[p].ret = "PAM_PERM_DENIED"
          /\ pam'[p].get_item_calls = 0
          /\ pam'[p].logs = 1
          /\ pam'[p].limit = pam[p].limit
          /\ LedgerUntouched(p) ]_vars

\* denied for the option where there is no user name and no limits file
C18_Witness ==
    /\ pam[1].stage = "refused"
    /\ ~pam[1].args_ok
    /\ pam[1].item = "err"
    /\ ~config.exists
    /\ pam[1].ret = "PAM_PERM_DENIED"
    /\ pam[1].get_item_calls = 0
    /\ pam[1].logs = 1
    /\ pam[1].limit = << >>

\* ------------------------------------------------------------------ C19
\* the Admission Check of p returns without a usage from the state file:
\* open_state_path or the scan of get_used_time_for_user failed
AcctLedgerError(p) ==
    /\ pam[p].entry = "acct"
    /\ pam[p].pc \in {"open", "create", "flock", "flock_new",
                      "locked", "locked_new"}
    /\ pam'[p].pc = "idle"
    /\ pam'[p].seen < 0

\* C19: when the state file cannot be opened, created, locked or read, or
\* its header is rejected, the Admission Check returns PAM_SYSTEM_ERR and
\* publishes no limit.
C19_LedgerErrorDenies ==
    [][\A p \in Procs :
          AcctLedgerError(p) =>
             /\ pam'[p].ret = "PAM_SYSTEM_ERR"
             /\ pam'[p].limit = << >>]_vars

\* ------------------------------------------------------------------ C20
\* read() calls that fail in one run of a scan loop
MaxReadFaults == 2

\* state files with a good header and whole records
LedgersIO ==
    { Header,
      Header \o Rec(ted, Today0, USEC_PER_SEC),
      Header \o Rec(bob, Today0, 1) \o Rec(ted, Today0, USEC_PER_SEC),
      Header \o Rec(bob, Today0, 1) \o Rec(bob, Yesterday, 3)
        \o Rec(ted, Today0, 2) }

\* what a read() of the scan returns: the cells, or -1 with errno EINTR or
\* with another errno
ReadOutcomes(faults) == IF faults > 0 THEN {"ok", "EINTR", "EIO"} ELSE {"ok"}

\* get_used_time_for_user or set_used_time_for_user with the state file
\* open and locked, before the first pass of its do/while loop
InitIO ==
    /\ Quiet
    /\ probe \in [fn : {"get", "set"}, pc : {"loop"}, file : LedgersIO,
                  username : Users, pos : {HeaderLen}, buf : {ZeroBuf},
                  buf_bytes : {0}, retval : {"PAM_SUCCESS"},
                  used_time : {0}, faults : {MaxReadFaults},
                  \* history: a read has failed with an errno other than
                  \* EINTR, and the reads and writes issued after that
                  failed : {FALSE}, after : {0}]

\* one pass of the do/while loop of get_used_time_for_user or of
\* set_used_time_for_user, with its one read()
scan_pass ==
    /\ probe.fn \in {"get", "set"}
    /\ probe.pc = "loop"
    /\ LET full  == probe.buf_bytes = RecLen
           bb    == IF full THEN 0 ELSE probe.buf_bytes
           cells == ReadCells(probe.file, probe.pos, RecLen - bb)
           next  == IF probe.fn = "get" THEN "done" ELSE "write"
           more  == IF probe.failed THEN 1 ELSE 0
       IN  IF full /\ strncmp_eq(probe.username, probe.buf, NameLen)
           THEN probe' = [probe EXCEPT
                    !.pc = next,
                    !.pos = IF probe.fn = "set" THEN @ - RecLen ELSE @,
                    !.used_time =
                       IF probe.fn = "set" \/ last_seen_of(probe.buf) < Today0
                       THEN @ ELSE used_time_of(probe.buf)]
           ELSE \E r \in ReadOutcomes(probe.faults),
                   ub \in IF Len(cells) > RecLen THEN {"goes_on", "SIGSEGV"}
                          ELSE {"goes_on"} :
                probe' =
                  IF r = "EINTR"
                  THEN [probe EXCEPT !.buf_bytes = bb, !.faults = @ - 1,
                                     !.after = @ + more]
                  ELSE IF r = "EIO" /\ probe.fn = "set"
                  THEN [probe EXCEPT !.pc = "done", !.buf_bytes = bb,
                                     !.faults = @ - 1, !.failed = TRUE,
                                     !.retval = "PAM_SYSTEM_ERR",
                                     !.after = @ + more]
                  ELSE IF r = "EIO"
                  THEN [probe EXCEPT !.buf_bytes = bb - 1,
                                     !.faults = @ - 1, !.failed = TRUE,
                                     !.retval = "PAM_SYSTEM_ERR",
                                     !.after = @ + more]
                  ELSE IF ub = "SIGSEGV"
                  THEN [probe EXCEPT !.pc = "done", !.retval = "SIGSEGV",
                                     !.after = @ + more]
                  ELSE IF Len(cells) = 0
                  THEN [probe EXCEPT !.pc = next, !.buf_bytes = bb,
                                     !.after = @ + more]
                  ELSE [probe EXCEPT !.pos = @ + Len(cells),
                                     !.buf = StoreCells(@, cells),
                                     !.buf_bytes = bb + Len(cells),
                                     !.after = @ + more]
    /\ UNCHANGED << clock, zone, state_exists, state_file, lock, config, pam,
                    order, spent, io_faults >>

\* set_used_time_for_user after its loop: the record is built and written
write_record ==
    /\ probe.fn = "set"
    /\ probe.pc = "write"
    /\ \E w \in IF probe.faults > 0 THEN {"ok", "fail"} ELSE {"ok"} :
         probe' = [probe EXCEPT
                     !.pc = "done",
                     !.file = IF w = "fail" THEN @
                              ELSE WriteCells(@, probe.pos,
                                     MakeRecord(probe.username, Today0, 1)),
                     !.retval = IF w = "fail" THEN "PAM_SYSTEM_ERR" ELSE @,
                     !.after = @ + (IF probe.failed THEN 1 ELSE 0)]
    /\ UNCHANGED << clock, zone, state_exists, state_file, lock, config, pam,
                    order, spent, io_faults >>

NextIO == scan_pass \/ write_record

SpecIO == InitIO /\ [][NextIO]_vars

\* C20: in get and in set a read that fails aborts the operation at once
\* with PAM_SYSTEM_ERR, and no further read or write is issued on the
\* state file by that invocation.
C20_NoRetryAfterFailedRead ==
    (probe.fn \in {"get", "set"} /\ probe.failed) =>
        /\ probe.pc = "done"
        /\ probe.retval = "PAM_SYSTEM_ERR"
        /\ probe.after = 0

\* ------------------------------------------------------------------ C21
\* the outcomes with which an entry point reports a failure
PamErrors == {"PAM_PERM_DENIED", "PAM_BAD_ITEM", "PAM_SYSTEM_ERR",
              "PAM_SESSION_ERR", "PAM_BUF_ERR"}

\* the step in which an entry point called on p's handle returns
Returns(p) ==
    /\ pam'[p].pc = "idle"
    /\ \/ pam[p].pc # "idle"
       \/ pam'[p].calls = pam[p].calls - 1

\* C21: every invocation of the Admission Check or of Session Close that
\* ends on an error path (not the denial of an exhausted quota) has made
\* exactly one log entry.
C21_OneLogPerError ==
    [][\A p \in Procs :
          (/\ Returns(p)
           /\ pam'[p].stage \in {"refused", "closed"}
           /\ pam'[p].ret \in PamErrors
           /\ ~AcctDecides(p))
          => pam'[p].logs = 1]_vars

\* ------------------------------------------------------------------ C22
\* C22: a Session Close (with recognized options) of a session with a
\* published limit returns PAM_SESSION_ERR and leaves the state file
\* unopened and unchanged when no start time is stored for the session and
\* when the clock reads less than the stored start time.
C22_BadStartTime ==
    [][\A p \in Procs :
          (/\ CloseCalled(p)
           /\ pam[p].limit # << >>
           /\ pam'[p].args_ok
           /\ \/ pam[p].start_time < 0
              \/ clock < pam[p].start_time)
          => /\ pam'[p].ret = "PAM_SESSION_ERR"
             /\ LedgerUntouched(p)]_vars

\* a Session Close found its start time in the future
C22_Witness ==
    /\ pam[1].stage = "closed"
    /\ pam[1].ret = "PAM_SESSION_ERR"
    /\ pam[1].limit # << >>
    /\ pam[1].args_ok
    /\ pam[1].start_time > clock

\* ------------------------------------------------------------------ C23
\* C23: a Session Close (with recognized options) of a session with a
\* published limit and a start time not in the future, for which
\* pam_get_item fails or gives no user name, returns PAM_SESSION_ERR and
\* leaves the state file unopened and unchanged.
C23_CloseNoIdentity ==
    [][\A p \in Procs :
          (/\ CloseCalled(p)
           /\ pam[p].limit # << >>
           /\ pam'[p].args_ok
           /\ pam[p].start_time >= 0
           /\ clock >= pam[p].start_time
           /\ pam[p].item \in {"err", "null"})
          => /\ pam'[p].ret = "PAM_SESSION_ERR"
             /\ LedgerUntouched(p)]_vars

MaxZone == 1

\* the offsets of the system timezone
Zones == (0 - MaxZone)..MaxZone

\* set_used_time_for_user is to run under one system timezone and
\* get_used_time_for_user, at the same instant, under another
InitZone ==
    /\ Quiet
    /\ probe \in [fn : {"zone"}, pc : {"set"},
                  now : Clock0..(Clock0 + MaxClock),
                  zone_set : Zones, zone_get : Zones,
                  username : Users, used_time : 1..USEC_PER_SEC,
                  file : {Header, Header \o Rec(bob, Today0, 1)},
                  out : {0 - 1}]

\* set_used_time_for_user: the record carries time_today() of zone_set
set_step ==
    /\ probe.fn = "zone"
    /\ probe.pc = "set"
    /\ probe' = [probe EXCEPT
                   !.pc = "get",
                   !.file = set_used_time_for_user(
                               @, probe.username,
                               time_today(probe.now, probe.zone_set),
                               probe.used_time)]
    /\ UNCHANGED << clock, zone, state_exists, state_file, lock, config, pam,
                    order, spent, io_faults >>

\* get_used_time_for_user: last_seen is compared with time_today() of
\* zone_get
get_step ==
    /\ probe.fn = "zone"
    /\ probe.pc = "get"
    /\ probe' = [probe EXCEPT
                   !.pc = "done",
                   !.out = get_used_time_for_user(
                              probe.file, probe.username,
                              time_today(probe.now, probe.zone_get))]
    /\ UNCHANGED << clock, zone, state_exists, state_file, lock, config, pam,
                    order, spent, io_faults >>

NextZone == set_step \/ get_step

SpecZone == InitZone /\ [][NextZone]_vars

\* C25: a get at the instant of a set returns the usage that set stored,
\* whether or not the system timezone was changed after the write.
C25_ZoneIndependent ==
    (probe.fn = "zone" /\ probe.pc = "done") => probe.out = probe.used_time

\* ------------------------------------------------------------------ C26
\* the first 12 bytes of the file are not the tag followed by version 1
Rejected(file) ==
    \/ Len(file) < HeaderLen
    \/ SubSeq(file, 1, HeaderLen) # Header

\* C26: with the lock on an existing file whose first 12 bytes are not the
\* tag and version 1, get and set fail with one log entry (the Admission
\* Check then denies, the Session Close returns PAM_SESSION_ERR), nothing
\* is published and the file keeps its bytes; and the module changes the
\* bytes of such a file only in the call that created it.
C26_BadHeaderRejected ==
    [][\A p \in Procs :
          /\ (/\ pam[p].pc = "locked"
              /\ pam'[p] # pam[p]
              /\ Rejected(state_file))
             => /\ pam'[p].pc = "idle"
                /\ pam'[p].ret = IF pam[p].entry = "acct"
                                 THEN "PAM_PERM_DENIED"
                                 ELSE "PAM_SESSION_ERR"
                /\ pam'[p].logs = pam[p].logs + 1
                /\ pam'[p].limit = pam[p].limit
                /\ state_file' = state_file
          /\ (/\ pam'[p] # pam[p]
              /\ state_exists
              /\ Rejected(state_file)
              /\ state_file' # state_file)
             => pam[p].pc = "locked_new"]_vars

\* set_used_time_for_user has met a file with another header and the
\* Session Close has returned its error
C26_Witness ==
    /\ pam[1].stage = "closed"
    /\ pam[1].ret = "PAM_SESSION_ERR"
    /\ pam[1].logs = 1
    /\ state_exists
    /\ Rejected(state_file)

\* ------------------------------------------------------------------ C27
\* user names of one character up to one more than the name field holds
Names ==
    UNION { [1..n -> {116, 98}] : n \in 1..(NameLen + 1) }

\* set_used_time_for_user is to run for one user name and
\* get_used_time_for_user for another or the same
InitName ==
    /\ Quiet
    /\ probe \in [fn : {"name"}, pc : {"set"},
                  username : Names, reader : Names,
                  used_time : 1..USEC_PER_SEC,
                  file : {Header, Header \o Rec(bob, Today0, USEC_PER_SEC + 1)},
                  out : {0 - 1}]

name_set_step ==
    /\ probe.fn = "name"
    /\ probe.pc = "set"
    /\ probe' = [probe EXCEPT
                   !.pc = "get",
                   !.file = set_used_time_for_user(@, probe.username, Today0,
                                                   probe.used_time)]
    /\ UNCHANGED << clock, zone, state_exists, state_file, lock, config, pam,
                    order, spent, io_faults >>

name_get_step ==
    /\ probe.fn = "name"
    /\ probe.pc = "get"
    /\ probe' = [probe EXCEPT
                   !.pc = "done",
                   !.out = get_used_time_for_user(probe.file, probe.reader,
                                                  Today0)]
    /\ UNCHANGED << clock, zone, state_exists, state_file, lock, config, pam,
                    order, spent, io_faults >>

NextName == name_set_step \/ name_get_step

SpecName == InitName /\ [][NextName]_vars

\* C27: the file stays a header and whole slots whatever the length of the
\* name set writes; a user name that fills the name field exactly is found
\* again by get with the usage set stored; and a shorter user name does not
\* match the record of such a name.
C27_FullWidthName ==
    probe.fn = "name" =>
       /\ (Len(probe.file) - HeaderLen) % RecLen = 0
       /\ (probe.pc = "done" /\ Len(probe.username) = NameLen) =>
             /\ probe.reader = probe.username =>
                   probe.out = probe.used_time
             /\ Len(probe.reader) < NameLen =>
                   probe.out \in {0, USEC_PER_SEC + 1}

\* a name that fills the field has been stored and read back
C27_Witness ==
    /\ probe.fn = "name"
    /\ probe.pc = "done"
    /\ Len(probe.username) = NameLen
    /\ probe.reader = probe.username
    /\ Len(probe.file) = HeaderLen + 2 * RecLen
    /\ probe.out = probe.used_time

\* ------------------------------------------------------------------ C28
\* the parts of an entry line: user name, white space, limit text, what
\* follows the limit, newline
LineUsers == { ted, bob, ted \o bob }
LineSeparators == { << SPACE >>, << TAB >>, << SPACE, TAB, SPACE >> }
LineLimits == { << 50 >>, << 53, 104, SPACE, 49, 109 >>,
                << 49, TAB, SPACE, 50 >> }
LineTails == { << >>, << SPACE >>, << HASH, 99 >>, << SPACE, TAB, HASH >>,
               << SPACE, HASH, 99, SPACE, HASH, 51 >> }

\* parse_config_line is to run on one entry line
InitLine ==
    /\ Quiet
    /\ probe \in [fn : {"line"}, user : LineUsers, sep : LineSeparators,
                  limit : LineLimits, tail : LineTails, done : {FALSE},
                  ret : {"none"}, out_user : {<< >>}, out_limit : {<< >>}]

parse_line_step ==
    /\ probe.fn = "line"
    /\ ~probe.done
    /\ \E stray \in StrayBytes :
         LET line == probe.user \o probe.sep \o probe.limit \o probe.tail
                       \o << NL >>
             r    == parse_config_line(line, stray)
         IN  probe' = [probe EXCEPT !.done = TRUE, !.ret = r.ret,
                                    !.out_user = r.user,
                                    !.out_limit = r.limit]
    /\ UNCHANGED << clock, zone, state_exists, state_file, lock, config, pam,
                    order, spent, io_faults >>

NextLine == parse_line_step

SpecLine == InitLine /\ [][NextLine]_vars

\* C28: of a line made of a user name, white space, a limit text and then
\* optional white space and a '#' comment, parse_config_line returns the
\* user name and the whole limit text, inner white space kept, without the
\* white space after it and without anything from the '#' on.
C28_EntryLineParsed ==
    (probe.fn = "line" /\ probe.done) =>
       /\ probe.ret = "PAM_SUCCESS"
       /\ probe.out_user = probe.user
       /\ probe.out_limit = probe.limit

\* a limit of two words, followed by white space and a comment, is parsed
C28_Witness ==
    /\ probe.fn = "line"
    /\ probe.done
    /\ probe.limit = << 53, 104, SPACE, 49, 109 >>
    /\ probe.tail = << SPACE, TAB, HASH >>
    /\ probe.out_limit = probe.limit

\* ------------------------------------------------------------------ C29
\* C29 (as the code has it): Session Open returns at once, without a log
\* entry and without opening or changing the state file, for every user
\* and whatever the limits file is.  It returns PAM_SUCCESS with the
\* clock's reading stored as the start time, or PAM_BUF_ERR (no memory
\* for the start time) or PAM_SYSTEM_ERR (pam_set_data failed) with the
\* stored start time left as it was.
C29_OpenStoresStart ==
    [][\A p \in Procs :
          OpenCalled(p) =>
             /\ LedgerUntouched(p)
             /\ pam'[p].logs = 0
             /\ pam'[p].limit = pam[p].limit
             /\ \/ /\ pam'[p].ret = "PAM_SUCCESS"
                   /\ pam'[p].start_time = clock
                \/ /\ pam'[p].ret \in {"PAM_BUF_ERR", "PAM_SYSTEM_ERR"}
                   /\ pam'[p].start_time = pam[p].start_time]_vars

\* a Session Open on a host whose limits file does not parse, after an
\* earlier one, has stored the later start time
C29_Witness ==
    /\ pam[1].stage = "opened"
    /\ pam[1].ret = "PAM_SUCCESS"
    /\ pam[1].start_time = clock
    /\ clock > Clock0
    /\ pam[1].calls = MaxCallsHost - 2
    /\ config = ConfigFile(LineNoLimit)

\* C29 as claimed: Session Open returns PAM_SUCCESS with the clock's
\* reading stored, or PAM_SYSTEM_ERR, and nothing else.
C29_OpenSuccessOrSystemError ==
    [][\A p \in Procs :
          OpenCalled(p) =>
             /\ LedgerUntouched(p)
             /\ \/ /\ pam'[p].ret = "PAM_SUCCESS"
                   /\ pam'[p].start_time = clock
                \/ pam'[p].ret = "PAM_SYSTEM_ERR"]_vars

\* ------------------------------------------------------------------ C30
\* C30: with the kernel running every process and granting the lock
\* fairly, every call of an entry point returns: the lock is given up on
\* every path of get and set, read errors in the scan included.
C30_EveryCallReturns ==
    \A p \in Procs : (pam[p].pc # "idle") ~> (pam[p].pc = "idle")

\* ------------------------------------------------------------------ C31
\* the file is the header followed by whole slots
WellFormed(file) ==
    /\ Len(file) >= HeaderLen
    /\ SubSeq(file, 1, HeaderLen) = Header
    /\ (Len(file) - HeaderLen) % RecLen = 0

\* no two slots hold the same name field
OneSlotPerName(file) ==
    \A j, k \in 1..NumSlots(file) :
       j # k => SubSeq(SlotAt(file, j), 1, NameLen)
                  # SubSeq(SlotAt(file, k), 1, NameLen)

\* a process is between its open(O_CREAT) and its write of the header
Creating == \E p \in Procs : pam[p].pc \in {"flock_new", "locked_new"}

\* C31: from an absent or well-formed state file and without I/O failures,
\* whatever the interleaving of the Admission Checks and Session Closes of
\* the processes, the file, once no process is creating it, is the header
\* followed by whole slots with at most one slot per user name, and its
\* number of slots never goes down.
C31_LedgerStructure ==
    [][ /\ (state_exists' /\ ~Creating') =>
             /\ WellFormed(state_file')
             /\ OneSlotPerName(state_file')
        /\ state_exists => state_exists'
        /\ state_exists => NumSlots(state_file') >= NumSlots(state_file) ]_vars

\* the closes of a login of ted and of one of bob have left two slots in a
\* file that was absent
C31_Witness ==
    /\ AllIdle
    /\ state_exists
    /\ NumSlots(state_file) = 2
    /\ SlotOf(state_file, ted) # 0
    /\ SlotOf(state_file, bob) # 0
    /\ \A p \in Procs : pam[p].stage = "closed"
    /\ WellFormed(state_file)

\* ------------------------------------------------------------------ C32
\* a step of p's Admission Check between its entry and its return
AcctStep(p) ==
    /\ pam[p].entry = "acct"
    /\ pam[p].pc # "idle"
    /\ pam'[p] # pam[p]

\* C32: an Admission Check, whatever its outcome (errors included), leaves
\* every slot and the length of the state file as they were; all it may do
\* to the file is create an absent one, which then holds just the header.
C32_AcctKeepsLedger ==
    [][ \A p \in Procs :
          AcctStep(p) =>
            /\ state_file' = state_file
                 \/ (state_file = << >> /\ state_file' = Header)
            /\ ( /\ pam[p].pc \in {"flock_new", "locked_new"}
                 /\ pam'[p].pc = "idle" ) =>
                     /\ Len(state_file') >= HeaderLen
                     /\ SubSeq(state_file', 1, HeaderLen) = Header ]_vars

\* ------------------------------------------------------------------ C33
\* the cells of whole slot k of the file
SlotCells(k) ==
    (HeaderLen + (k - 1) * RecLen + 1)..(HeaderLen + k * RecLen)

\* the first whole slot whose name field, read as a C string, is the name
\* of user, or 0
NamedSlot(file, user) ==
    FirstOf({k \in 1..NumSlots(file) :
               CStringAt(SubSeq(SlotAt(file, k), 1, NameLen) \o << NUL >>, 1)
                 = SubSeq(user, 1, Min(Len(user), NameLen))},
            0)

\* C33: set(u, U) changes the slot of u only.  Where the file has a slot of
\* u the slot is overwritten in place, and the header, the other slots and
\* the length stay; where it has none, one slot is added at the end and
\* all that was in the file stays.  The slot holds the padded name of u,
\* today's day boundary and U.
C33_SetChangesOwnSlot ==
    [][ \A p \in Procs : SetWrites(p) =>
          LET f   == after_header(state_file, pam[p].pc = "locked_new")
              k   == NamedSlot(f, pam[p].user)
              rec == strncpy(pam[p].user, NameLen)
                       \o << Today, pam[p].elapsed_time >>
          IN  IF k # 0
              THEN /\ Len(state_file') = Len(f)
                   /\ SlotAt(state_file', k) = rec
                   /\ \A i \in (1..Len(f)) \ SlotCells(k) :
                         state_file'[i] = f[i]
              ELSE state_file' = f \o rec ]_vars

\* ted's slot has been overwritten in front of bob's, which is as it was
C33_Witness ==
    /\ pam[1].stage = "closed"
    /\ pam[1].ret = "PAM_SUCCESS"
    /\ pam[1].user = ted
    /\ state_file = Header \o Rec(ted, Today0, 2 * USEC_PER_SEC)
                       \o Rec(bob, Today0, 1)
    /\ spent[ted] = 2 * USEC_PER_SEC

\* ------------------------------------------------------------------ C34
\* a step of p's Session Close between its get and its set
BetweenGetAndSet(p) ==
    /\ pam[p].entry = "close"
    /\ pam[p].fn = "set"
    /\ pam'[p].fn = "set"

\* C34: a Session Close whose get finds the user's record to be of an
\* earlier day takes the session's elapsed time alone as the new usage,
\* carries it unchanged to its set, and the set writes it with today's day
\* boundary into the slot the record is in: the counter of the earlier day
\* is dropped, not added, and the file keeps its length.
C34_RolloverOnWrite ==
    [][ \A p \in Procs :
          /\ (GetReads(p) /\ pam[p].entry = "close"
                 /\ StaleRecord(pam[p].user)) =>
                /\ pam'[p].fn = "set"
                /\ pam'[p].elapsed_time = pam[p].charge
                /\ state_file' = state_file
          /\ BetweenGetAndSet(p) =>
                /\ pam'[p].elapsed_time = pam[p].elapsed_time
                /\ pam'[p].charge = pam[p].charge
          /\ (SetWrites(p) /\ StaleRecord(pam[p].user)) =>
                LET k == SlotOf(state_file, pam[p].user)
                IN  /\ Len(state_file') = Len(state_file)
                    /\ SlotOf(state_file', pam[p].user) = k
                    /\ last_seen_of(SlotAt(state_file', k)) = Today
                    /\ used_time_of(SlotAt(state_file', k))
                          = pam[p].elapsed_time ]_vars

\* the close of a session of 1 s on the day after the record's has put the
\* 1 s in the place of the 1 s recorded for that day, behind bob's slot
C34_Witness ==
    /\ pam[1].stage = "closed"
    /\ pam[1].ret = "PAM_SUCCESS"
    /\ Today = Today0 + SecsPerDay
    /\ state_file = Header \o Rec(bob, Today0, 1)
                       \o Rec(ted, Today0 + SecsPerDay, USEC_PER_SEC)
    /\ spent[ted] = 2 * USEC_PER_SEC

\* ------------------------------------------------------------------ C35
\* C35: get returns zero for the user's record when the day marker stored
\* in it is not today's day boundary, be the marker of an earlier or of a
\* later day (as after the timezone was moved back).
C35_OtherDayReadsZero ==
    ( /\ probe.fn = "zone"
      /\ probe.pc = "done"
      /\ time_today(probe.now, probe.zone_set)
           # time_today(probe.now, probe.zone_get) ) => probe.out = 0

\* ------------------------------------------------------------------ C36
\* the step in which an Admission Check on p's handle returns
AcctReturns(p) ==
    /\ pam'[p].pc = "idle"
    /\ pam[p].entry = "acct" \/ AcctCalled(p)

\* C36: when an Admission Check returns, a remaining time is published for
\* the session if and only if it returns PAM_SUCCESS: after any other
\* outcome (PAM_IGNORE, PAM_PERM_DENIED, an error, a failure to format or
\* to store the value) nothing is left published, and the Session Close
\* that follows charges nothing.
C36_PublishedIffSuccess ==
    [][ \A p \in Procs : AcctReturns(p) =>
          (pam'[p].limit # << >> <=> pam'[p].ret = "PAM_SUCCESS") ]_vars

\* ------------------------------------------------------------------ C37
\* C37: with the state file absent and several processes in get or set at
\* once, no process holds the lock on a file another process has created
\* and not yet given its header (so none fails on reading the header), and
\* once all have returned the file is the header followed by whole slots.
C37_CreationSafe ==
    /\ \A p \in Procs :
          (lock = p /\ pam[p].pc = "locked") =>
             /\ Len(state_file) >= HeaderLen
             /\ SubSeq(state_file, 1, HeaderLen) = Header
    /\ (AllIdle /\ state_exists) => WellFormed(state_file)

\* ------------------------------------------------------------------ C38
\* C38: the set of a Session Close stores the usage its get counted under
\* the day the get counted it for: where the get took a usage above zero
\* from the user's record, the day marker the set writes is the marker of
\* that record, also when midnight passes between the two.
C38_OneDayPerClose ==
    [][ \A p \in Procs :
          ( /\ SetWrites(p)
            /\ pam[p].used_time > 0
            /\ SlotOf(state_file, pam[p].user) # 0 ) =>
            LET k == SlotOf(state_file, pam[p].user)
            IN  last_seen_of(SlotAt(state_file', k))
                  = last_seen_of(SlotAt(state_file, k)) ]_vars

\* ------------------------------------------------------------------ C39
\* the lines in front of the last line of the limits file
FileHeads ==
    { << >>, Entry(bob, << 49 >>),
      Entry(ted, << 49 >>) \o Entry(bob, << 51 >>) }

\* parse_config_file is to run on a limits file whose last line is an entry
\* that ends with a newline or with the end of the file
InitTail ==
    /\ Quiet
    /\ probe \in [fn : {"tail"}, head : FileHeads, user : Users,
                  sep : LineSeparators, limit : LineLimits,
                  terminated : BOOLEAN, username : Users, done : {FALSE},
                  ret : {"none"}, out : {<< >>}]

\* parse_config_file and the loop over user_table
parse_file_step ==
    /\ probe.fn = "tail"
    /\ ~probe.done
    /\ \E stray \in StrayBytes :
         LET last == probe.user \o probe.sep \o probe.limit
                       \o (IF probe.terminated THEN << NL >> ELSE << >>)
             cf   == parse_config_file(ConfigFile(probe.head \o last), stray)
         IN  probe' = [probe EXCEPT
                         !.done = TRUE,
                         !.ret = cf.ret,
                         !.out = IF cf.ret = "PAM_SUCCESS"
                                 THEN match_user(cf.table, probe.username,
                                                 << >>)
                                 ELSE << >>]
    /\ UNCHANGED << clock, zone, state_exists, state_file, lock, config, pam,
                    order, spent, io_faults >>

NextTail == parse_file_step

SpecTail == InitTail /\ [][NextTail]_vars

\* C39: a last line of the limits file that is shorter than the line
\* buffer and ends with the end of the file, not with a newline, is parsed
\* like a line with a newline: the file is accepted and the entry of the
\* line applies to its user.
C39_UnterminatedLastLine ==
    (probe.fn = "tail" /\ probe.done /\ ~probe.terminated) =>
       /\ probe.ret = "PAM_SUCCESS"
       /\ probe.username = probe.user => probe.out = probe.limit

\* ------------------------------------------------------------------ C40
\* longest text of a generated line, the newline not counted
MaxLine == 3

\* lines of up to MaxLine characters out of a letter, a digit, a blank and
\* '#', each ended by a newline: empty, blank and comment lines, entries,
\* names without a limit
AnyLines ==
    { text \o << NL >> :
        text \in UNION { [1..n -> {116, 50, SPACE, HASH}] :
                           n \in 0..MaxLine } }

\* parse_config_line is to run on one line
InitAny ==
    /\ Quiet
    /\ probe \in [fn : {"any"}, line : AnyLines, done : {FALSE},
                  ret : {"none"}, oob : {FALSE}]

parse_any_step ==
    /\ probe.fn = "any"
    /\ ~probe.done
    /\ \E stray \in StrayBytes :
         LET r == parse_config_line(probe.line, stray)
         IN  probe' = [probe EXCEPT !.done = TRUE, !.ret = r.ret,
                                    !.oob = r.oob]
    /\ UNCHANGED << clock, zone, state_exists, state_file, lock, config, pam,
                    order, spent, io_faults >>

NextAny == parse_any_step

SpecAny == InitAny /\ [][NextAny]_vars

\* C40: whatever the line is (empty, blank and comment lines included),
\* parse_config_line uses no index below 0 and none above the place of the
\* line's terminating NUL.
C40_IndicesInLine ==
    (probe.fn = "any" /\ probe.done) => ~probe.oob

====
